---- MODULE Spec2Model ----
(***************************************************************************)
(* Model of the BDSP event-script analyzer: the line parser                *)
(* (src/src/utils/parser.ts), the semantic validator                       *)
(* (src/src/providers/diagnosticProvider.ts), the command registry         *)
(* (src/src/data/dataLoader.ts) and the document event wiring              *)
(* (src/src/extension.ts).                                                 *)
(*                                                                         *)
(* A text is a sequence of one-character strings.  Columns are zero-based  *)
(* as in the source; At(text, i) is text[i] of the source.                 *)
(***************************************************************************)
EXTENDS Integers, Sequences, FiniteSets, TLC

VARIABLES
    commandLookup,   \* DataLoader.commandLookup: command name -> Command
    activated,       \* activate() has run (registry loaded, handlers registered)
    document,        \* the host's text buffer: sequence of line texts
    isOpen,          \* the document is open in the host
    diagnostics,     \* diagnosticCollection entry of the document
    parsed,          \* result of the most recent parseDocument call
    remembered,      \* observer: <<>> or <<[text, model]>> of one earlier analysis
    cursor,          \* cursor column on the last line (query surface)
    activeContext,   \* result of the most recent getActiveContext call
    errorLog,        \* console.error output: the messages logged so far
    wordInfo,        \* the most recent getWordAtPosition call: line, column, result
    documents,       \* workspace view: uri -> [isOpen, languageId, text]
    collection       \* workspace view: diagnosticCollection, uri -> diagnostics

vars == <<commandLookup, activated, document, isOpen, diagnostics, parsed,
          remembered, cursor, activeContext, errorLog, wordInfo, documents,
          collection>>

\* the variables of the workspace view (several documents), and those of the
\* single-document view
workspaceVars == <<documents, collection>>
documentVars == <<document, isOpen, diagnostics, parsed, remembered, cursor,
                  activeContext, wordInfo>>

----------------------------------------------------------------------------
(* Characters and character classes used by the source's regular expressions *)

Upper == {"A","B","C","D","E","F","G","H","I","J","K","L","M",
          "N","O","P","Q","R","S","T","U","V","W","X","Y","Z"}
Lower == {"a","b","c","d","e","f","g","h","i","j","k","l","m",
          "n","o","p","q","r","s","t","u","v","w","x","y","z"}
Digit == {"0","1","2","3","4","5","6","7","8","9"}
\* \s and String.prototype.trim, restricted to the characters the model types
Whitespace == {" ", "\t"}
\* ['"]
QuoteChars == {"\"", "'"}
\* [a-zA-Z_] and [a-zA-Z0-9_]
IdentStart == Lower \cup Upper \cup {"_"}
IdentChar == IdentStart \cup Digit
\* [A-Z_] and [A-Z0-9_]
CmdStart == Upper \cup {"_"}
CmdChar == CmdStart \cup Digit

----------------------------------------------------------------------------
(* String primitives of the host language *)

\* text[i], zero-based
At(text, i) == text[i + 1]

\* text.substring(a, b) for 0 <= a <= b <= text.length
Substring(text, a, b) == [k \in 1..(b - a) |-> text[a + k]]

\* text.substring(a)
SubstringFrom(text, a) == Substring(text, a, Len(text))

\* exclusive end of the maximal run of characters of class cls starting at i
RECURSIVE RunEnd(_, _, _)
RunEnd(text, i, cls) ==
    IF i < Len(text) /\ At(text, i) \in cls THEN RunEnd(text, i + 1, cls) ELSE i

\* start of the maximal run of characters of class cls ending just before j
RECURSIVE RunStart(_, _, _)
RunStart(text, j, cls) ==
    IF j > 0 /\ At(text, j - 1) \in cls THEN RunStart(text, j - 1, cls) ELSE j

\* text.trim()
Trim(text) ==
    LET s == RunEnd(text, 0, Whitespace)
        e == RunStart(text, Len(text), Whitespace)
    IN  IF s >= e THEN <<>> ELSE Substring(text, s, e)

\* text.startsWith(prefix)
StartsWith(text, prefix) ==
    /\ Len(text) >= Len(prefix)
    /\ Substring(text, 0, Len(prefix)) = prefix

\* text.indexOf(sub, from): first index >= from where sub occurs, else -1
RECURSIVE IndexOf(_, _, _)
IndexOf(text, sub, from) ==
    IF from + Len(sub) > Len(text) THEN -1
    ELSE IF Substring(text, from, from + Len(sub)) = sub THEN from
    ELSE IndexOf(text, sub, from + 1)

\* text.lastIndexOf(ch) searching leftward from index from
RECURSIVE LastIndexOfFrom(_, _, _)
LastIndexOfFrom(text, ch, from) ==
    IF from < 0 THEN -1
    ELSE IF At(text, from) = ch THEN from
    ELSE LastIndexOfFrom(text, ch, from - 1)

LastIndexOf(text, ch) == LastIndexOfFrom(text, ch, Len(text) - 1)

\* text.replace(/['"]/g, '')
StripQuotes(text) == SelectSeq(text, LAMBDA c : c \notin QuoteChars)

\* number of occurrences of character ch in text
RECURSIVE CountChar(_, _)
CountChar(text, ch) ==
    IF text = <<>> THEN 0
    ELSE (IF Head(text) = ch THEN 1 ELSE 0) + CountChar(Tail(text), ch)

\* new vscode.Range(line, startCol, line, endCol): the host swaps the ends when
\* start is after end
Range(line, startCol, endCol) ==
    IF startCol <= endCol
    THEN [line |-> line, start |-> startCol, end |-> endCol]
    ELSE [line |-> line, start |-> endCol, end |-> startCol]

----------------------------------------------------------------------------
(* Parser: src/src/utils/parser.ts *)

\* GE, GT, LE, LT, EQ, NE
Comparators == {<<"G","E">>, <<"G","T">>, <<"L","E">>, <<"L","T">>,
                <<"E","Q">>, <<"N","E">>}

\* /^-?\d+(\.\d+)?$/.test(value)
IsNumber(value) ==
    LET s  == IF value # <<>> /\ value[1] = "-" THEN 1 ELSE 0
        d1 == RunEnd(value, s, Digit)
        d2 == RunEnd(value, d1 + 1, Digit)
    IN  /\ d1 > s
        /\ \/ d1 = Len(value)
           \/ /\ d1 < Len(value)
              /\ At(value, d1) = "."
              /\ d2 > d1 + 1
              /\ d2 = Len(value)

\* createArgument recognising whole numbers only
CreateArgument_IntegersOnly(value, line, startCol, endCol) ==
    LET range == Range(line, startCol, endCol)
        body  == IF StartsWith(value, <<"-">>) THEN SubstringFrom(value, 1) ELSE value
        type  == IF StartsWith(value, <<"@">>) THEN "work"
                 ELSE IF StartsWith(value, <<"#">>) THEN "flag"
                 ELSE IF StartsWith(value, <<"$">>) THEN "sysflag"
                 ELSE IF StartsWith(value, <<"\"">>) \/ StartsWith(value, <<"'">>)
                      THEN "string"
                 ELSE IF body # <<>> /\ \A k \in 1..Len(body) : body[k] \in Digit
                      THEN "number"
                 ELSE IF value \in Comparators THEN "comparator"
                 ELSE "unknown"
    IN  [value |-> value, type |-> type, range |-> range]

\* createArgument(value, line, startCol, endCol)
CreateArgument(value, line, startCol, endCol) ==
    LET range == Range(line, startCol, endCol)
        type  == IF StartsWith(value, <<"@">>) THEN "work"
                 ELSE IF StartsWith(value, <<"#">>) THEN "flag"
                 ELSE IF StartsWith(value, <<"$">>) THEN "sysflag"
                 ELSE IF StartsWith(value, <<"\"">>) \/ StartsWith(value, <<"'">>)
                      THEN "string"
                 ELSE IF IsNumber(value) THEN "number"
                 ELSE IF value \in Comparators THEN "comparator"
                 ELSE "unknown"
    IN  [value |-> value, type |-> type, range |-> range]

\* findMatchingParen: the scan from index i at nesting depth
RECURSIVE ParenScan(_, _, _)
ParenScan(text, i, depth) ==
    IF i >= Len(text) THEN -1
    ELSE IF At(text, i) = "(" THEN ParenScan(text, i + 1, depth + 1)
    ELSE IF At(text, i) = ")"
         THEN IF depth - 1 = 0 THEN i ELSE ParenScan(text, i + 1, depth - 1)
    ELSE ParenScan(text, i + 1, depth)

\* findMatchingParen(text, openIndex)
FindMatchingParen(text, openIndex) == ParenScan(text, openIndex + 1, 1)

\* the locals of parseArguments before its loop
ArgScanInit(startCol) ==
    [args |-> <<>>, currentArg |-> <<>>, inString |-> FALSE, stringChar |-> "",
     argStartCol |-> startCol]

\* the loop body with a comma splitting inside a quoted string as well
ArgScanStep_SplitsInString(st, char, line, col) ==
    IF char = ","
    THEN [st EXCEPT
            !.args = IF Trim(st.currentArg) # <<>>
                     THEN Append(@, CreateArgument(Trim(st.currentArg), line,
                                                   st.argStartCol, col))
                     ELSE @,
            !.currentArg = <<>>,
            !.argStartCol = col + 1]
    ELSE [st EXCEPT
            !.argStartCol = IF st.currentArg = <<>> /\ char \notin Whitespace
                            THEN col ELSE @,
            !.currentArg = Append(@, char)]

\* the loop body leaving argStartCol where it was when a comma ends an argument
ArgScanStep_KeepsStart(st, char, line, col) ==
    IF ~st.inString /\ char \in QuoteChars
    THEN [st EXCEPT !.inString = TRUE, !.stringChar = char,
                    !.currentArg = Append(@, char)]
    ELSE IF st.inString /\ char = st.stringChar
    THEN [st EXCEPT !.inString = FALSE, !.currentArg = Append(@, char)]
    ELSE IF ~st.inString /\ char = ","
    THEN [st EXCEPT
            !.args = IF Trim(st.currentArg) # <<>>
                     THEN Append(@, CreateArgument(Trim(st.currentArg), line,
                                                   st.argStartCol, col))
                     ELSE @,
            !.currentArg = <<>>]
    ELSE [st EXCEPT !.currentArg = Append(@, char)]

\* one iteration of the loop of parseArguments on character char at column col
ArgScanStep(st, char, line, col) ==
    IF ~st.inString /\ char \in QuoteChars
    THEN [st EXCEPT !.inString = TRUE, !.stringChar = char,
                    !.currentArg = Append(@, char)]
    ELSE IF st.inString /\ char = st.stringChar
    THEN [st EXCEPT !.inString = FALSE, !.currentArg = Append(@, char)]
    ELSE IF ~st.inString /\ char = ","
    THEN [st EXCEPT
            !.args = IF Trim(st.currentArg) # <<>>
                     THEN Append(@, CreateArgument(Trim(st.currentArg), line,
                                                   st.argStartCol, col))
                     ELSE @,
            !.currentArg = <<>>,
            !.argStartCol = col + 1]
    ELSE [st EXCEPT
            !.argStartCol = IF st.currentArg = <<>> /\ char \notin Whitespace
                            THEN col ELSE @,
            !.currentArg = Append(@, char)]

\* the loop of parseArguments from index i on
RECURSIVE ArgScan(_, _, _, _, _)
ArgScan(argsText, line, startCol, i, st) ==
    IF i >= Len(argsText) THEN st
    ELSE ArgScan(argsText, line, startCol, i + 1,
                 ArgScanStep(st, At(argsText, i), line, startCol + i))

\* parseArguments(argsText, line, startCol)
ParseArguments(argsText, line, startCol) ==
    IF Trim(argsText) = <<>> THEN <<>>
    ELSE LET st  == ArgScan(argsText, line, startCol, 0, ArgScanInit(startCol))
             col == startCol + Len(argsText) - 1
         IN  IF Trim(st.currentArg) # <<>>
             THEN Append(st.args, CreateArgument(Trim(st.currentArg), line,
                                                 st.argStartCol, col + 1))
             ELSE st.args

\* the parser's JUMP_COMMANDS
c_JUMP == <<"_","J","U","M","P">>
c_CALL == <<"_","C","A","L","L">>
c_IF_FLAGON_JUMP == <<"_","I","F","_","F","L","A","G","O","N","_","J","U","M","P">>
c_IF_FLAGOFF_JUMP == <<"_","I","F","_","F","L","A","G","O","F","F","_","J","U","M","P">>
c_IF_FLAGON_CALL == <<"_","I","F","_","F","L","A","G","O","N","_","C","A","L","L">>
c_IF_FLAGOFF_CALL == <<"_","I","F","_","F","L","A","G","O","F","F","_","C","A","L","L">>
c_IFVAL_JUMP == <<"_","I","F","V","A","L","_","J","U","M","P">>
c_IFVAL_CALL == <<"_","I","F","V","A","L","_","C","A","L","L">>
c_OBJ_ANIME == <<"_","O","B","J","_","A","N","I","M","E">>

JUMP_COMMANDS ==
    {c_JUMP, c_CALL, c_IF_FLAGON_JUMP, c_IF_FLAGOFF_JUMP, c_IF_FLAGON_CALL,
     c_IF_FLAGOFF_CALL, c_IFVAL_JUMP, c_IFVAL_CALL, c_OBJ_ANIME}

\* isJumpCommand(cmdName)
IsJumpCommand(cmdName) == cmdName \in JUMP_COMMANDS

\* args[k] || null, as an optional value: <<>> or <<args[k]>>
ArgAt(args, k) == IF k < Len(args) THEN <<args[k + 1]>> ELSE <<>>

\* getLabelArgument taking the first argument of every jump/call command
GetLabelArgument_FirstArgument(cmdName, args) ==
    IF cmdName \in JUMP_COMMANDS THEN ArgAt(args, 0) ELSE <<>>

\* getLabelArgument(cmdName, args)
GetLabelArgument(cmdName, args) ==
    IF cmdName \in {c_JUMP, c_CALL} THEN ArgAt(args, 0)
    ELSE IF cmdName \in {c_IF_FLAGON_JUMP, c_IF_FLAGOFF_JUMP,
                         c_IF_FLAGON_CALL, c_IF_FLAGOFF_CALL} THEN ArgAt(args, 1)
    ELSE IF cmdName \in {c_IFVAL_JUMP, c_IFVAL_CALL} THEN ArgAt(args, 3)
    ELSE IF cmdName = c_OBJ_ANIME THEN ArgAt(args, 1)
    ELSE <<>>

\* the label pattern anchored at both ends of the line: /^(...):$/
LabelMatch_WholeLine(text) ==
    IF text # <<>> /\ text[1] \in IdentStart
    THEN LET e == RunEnd(text, 1, IdentChar)
         IN  IF e = Len(text) - 1 /\ At(text, e) = ":"
             THEN <<Substring(text, 0, e)>> ELSE <<>>
    ELSE <<>>

\* text.match(/^([a-zA-Z_][a-zA-Z0-9_]*):/): <<>> or <<labelMatch[1]>>
LabelMatch(text) ==
    IF text # <<>> /\ text[1] \in IdentStart
    THEN LET e == RunEnd(text, 1, IdentChar)
         IN  IF e < Len(text) /\ At(text, e) = ":"
             THEN <<Substring(text, 0, e)>> ELSE <<>>
    ELSE <<>>

\* /([A-Z_][A-Z0-9_]*)\s*\(/ matches with its first character at column p
CmdMatchesAt(text, p) ==
    /\ p < Len(text)
    /\ At(text, p) \in CmdStart
    /\ LET w == RunEnd(text, RunEnd(text, p + 1, CmdChar), Whitespace)
       IN  w < Len(text) /\ At(text, w) = "("

\* text.match(/([A-Z_][A-Z0-9_]*)\s*\(/): <<>> or <<cmdMatch[1]>> (leftmost match)
CmdMatch(text) ==
    LET starts == {p \in 0..(Len(text) - 1) : CmdMatchesAt(text, p)}
    IN  IF starts = {} THEN <<>>
        ELSE LET p == CHOOSE q \in starts : \A r \in starts : q <= r
             IN  <<Substring(text, p, RunEnd(text, p + 1, CmdChar))>>

\* labels.set(name, label) on a Map held as a function
MapSet(map, key, value) ==
    [k \in (DOMAIN map) \cup {key} |-> IF k = key THEN value ELSE map[k]]

\* accumulators kept from the previous call instead of created afresh
EmptyModel_Kept == parsed

\* the three accumulators parseDocument starts from
EmptyModel == [labels |-> <<>>, commands |-> <<>>, labelReferences |-> <<>>]

\* the label part keeping the entry of the first declaration of a name
ParseLabel_FirstWins(labels, text, i) ==
    LET labelMatch == LabelMatch(text)
    IN  IF labelMatch # <<>> /\ labelMatch[1] \notin DOMAIN labels
        THEN MapSet(labels, labelMatch[1],
                    [name |-> labelMatch[1], line |-> i,
                     range |-> Range(i, 0, Len(labelMatch[1]) + 1)])
        ELSE labels

\* the label part of one iteration of parseDocument's loop
ParseLabel(labels, text, i) ==
    LET labelMatch == LabelMatch(text)
    IN  IF labelMatch # <<>>
        THEN LET labelName == labelMatch[1]
                 startCol  == IndexOf(text, labelName, 0)
             IN  MapSet(labels, labelName,
                        [name |-> labelName, line |-> i,
                         range |-> Range(i, startCol, startCol + Len(labelName) + 1)])
        ELSE labels

\* the command part recording terminated calls only
ParseCommand_DropsUnterminated(text, i) ==
    LET cmdMatch == CmdMatch(text)
    IN  IF cmdMatch # <<>>
        THEN LET cmdName     == cmdMatch[1]
                 cmdStartCol == IndexOf(text, cmdName, 0)
                 openParen   == IndexOf(text, <<"(">>, cmdStartCol)
                 closeParen  == FindMatchingParen(text, openParen)
             IN  IF closeParen > openParen
                 THEN <<[name |-> cmdName, line |-> i, column |-> cmdStartCol,
                         args |-> ParseArguments(
                                      Substring(text, openParen + 1, closeParen),
                                      i, openParen + 1),
                         range |-> Range(i, cmdStartCol, closeParen + 1)]>>
                 ELSE <<>>
        ELSE <<>>

\* the command part of one iteration: <<>> or <<ParsedCommand>>
ParseCommand(text, i) ==
    LET cmdMatch == CmdMatch(text)
    IN  IF cmdMatch # <<>>
        THEN LET cmdName     == cmdMatch[1]
                 cmdStartCol == IndexOf(text, cmdName, 0)
                 openParen   == IndexOf(text, <<"(">>, cmdStartCol)
                 closeParen  == FindMatchingParen(text, openParen)
                 argsText    == IF closeParen > openParen
                                THEN Substring(text, openParen + 1, closeParen)
                                ELSE SubstringFrom(text, openParen + 1)
                 args        == ParseArguments(argsText, i, openParen + 1)
             IN  <<[name |-> cmdName, line |-> i, column |-> cmdStartCol,
                    args |-> args,
                    range |-> Range(i, cmdStartCol,
                                    IF closeParen > 0 THEN closeParen + 1
                                    ELSE Len(text))]>>
        ELSE <<>>

\* the label-reference part of one iteration: <<>> or <<reference>>
ParseLabelReference(cmd, i) ==
    IF IsJumpCommand(cmd.name) /\ Len(cmd.args) > 0
    THEN LET labelArg == GetLabelArgument(cmd.name, cmd.args)
         IN  IF labelArg # <<>> /\ labelArg[1].type = "string"
             THEN <<[name |-> StripQuotes(labelArg[1].value),
                     range |-> labelArg[1].range, line |-> i]>>
             ELSE <<>>
    ELSE <<>>

\* the skip test applied to the line text as written, without trimming it
IsSkippedLine_Untrimmed(text) ==
    \/ text = <<>>
    \/ StartsWith(text, <<";">>)
    \/ StartsWith(text, <<"/","/">>)

\* a line parseDocument skips: blank, or a ; or // comment
IsSkippedLine(text) ==
    LET trimmed == Trim(text)
    IN  \/ trimmed = <<>>
        \/ StartsWith(trimmed, <<";">>)
        \/ StartsWith(trimmed, <<"/","/">>)

\* one iteration of parseDocument's loop on line i (zero-based)
ParseLine(model, text, i) ==
    IF IsSkippedLine(text) THEN model
    ELSE LET cmd == ParseCommand(text, i)
         IN  [labels |-> ParseLabel(model.labels, text, i),
              commands |-> model.commands \o cmd,
              labelReferences |->
                  model.labelReferences \o
                  (IF cmd # <<>> THEN ParseLabelReference(cmd[1], i) ELSE <<>>)]

\* parseDocument's loop from line i on
RECURSIVE ParseLines(_, _, _)
ParseLines(doc, i, model) ==
    IF i >= Len(doc) THEN model
    ELSE ParseLines(doc, i + 1, ParseLine(model, doc[i + 1], i))

\* parseDocument(document)
ParseDocument(doc) == ParseLines(doc, 0, EmptyModel)

----------------------------------------------------------------------------
(* Registry: src/src/data/dataLoader.ts *)

\* one CommandArg of commands.json
Slot(tentativeName, types, optional) ==
    [TentativeName |-> tentativeName, Type |-> types, Optional |-> optional]

\* one Command of commands.json (Id, Description, Dummy, Animation are not read
\* by the parser or the validator)
Command(name, slots) == [Name |-> name, Args |-> slots]

c_TALKMSG == <<"_","T","A","L","K","M","S","G">>
c_TIME_WAIT == <<"_","T","I","M","E","_","W","A","I","T">>
c_END == <<"_","E","N","D">>
c_FLAG_SET == <<"_","F","L","A","G","_","S","E","T">>
c_SYS == <<"_","S","Y","S">>
c_LDVAL == <<"_","L","D","V","A","L">>
c_FOO == <<"_","F","O","O">>

\* A commands.json in which the jump/call commands are registered.  The data
\* files are not part of the sources; the entries follow the Command and
\* CommandArg shapes and the example script of the README.
CommandsJsonA ==
    << Command(c_JUMP, <<Slot(<<"label">>, <<"Label">>, FALSE)>>),
       Command(c_CALL, <<Slot(<<"label">>, <<"Label">>, FALSE)>>),
       Command(c_IF_FLAGON_JUMP, <<Slot(<<"flag">>, <<"Flag">>, FALSE),
                                   Slot(<<"label">>, <<"Label">>, FALSE)>>),
       Command(c_IF_FLAGOFF_JUMP, <<Slot(<<"flag">>, <<"Flag">>, FALSE),
                                    Slot(<<"label">>, <<"Label">>, FALSE)>>),
       Command(c_IF_FLAGON_CALL, <<Slot(<<"flag">>, <<"Flag">>, FALSE),
                                   Slot(<<"label">>, <<"Label">>, FALSE)>>),
       Command(c_IF_FLAGOFF_CALL, <<Slot(<<"flag">>, <<"Flag">>, FALSE),
                                    Slot(<<"label">>, <<"Label">>, FALSE)>>),
       Command(c_IFVAL_JUMP, <<Slot(<<"work">>, <<"Work">>, FALSE),
                               Slot(<<"cmp">>, <<>>, FALSE),
                               Slot(<<"value">>, <<"Number", "Work">>, FALSE),
                               Slot(<<"label">>, <<"Label">>, FALSE)>>),
       Command(c_IFVAL_CALL, <<Slot(<<"work">>, <<"Work">>, FALSE),
                               Slot(<<"cmp">>, <<>>, FALSE),
                               Slot(<<"value">>, <<"Number", "Work">>, FALSE),
                               Slot(<<"label">>, <<"Label">>, FALSE)>>),
       Command(c_OBJ_ANIME, <<Slot(<<"obj">>, <<"Number", "Work">>, FALSE),
                              Slot(<<"label">>, <<"Label">>, FALSE)>>),
       Command(c_TALKMSG, <<Slot(<<"msg">>, <<"String">>, FALSE)>>),
       Command(c_TIME_WAIT, <<Slot(<<"frames">>, <<"Number">>, FALSE),
                              Slot(<<"work">>, <<"Work">>, TRUE)>>),
       Command(c_END, <<>>),
       Command(c_FLAG_SET, <<Slot(<<"flag">>, <<"Flag", "SysFlag">>, FALSE)>>),
       Command(c_SYS, <<Slot(<<"sys">>, <<"System">>, TRUE),
                        Slot(<<"flag">>, <<"SysFlag">>, FALSE),
                        Slot(<<"any">>, <<>>, TRUE)>>),
       Command(c_LDVAL, <<Slot(<<"work">>, <<"Work">>, FALSE),
                          Slot(<<"value">>, <<"Number">>, FALSE),
                          Slot(<<"flag">>, <<"Flag">>, TRUE)>>) >>

\* A commands.json without the jump/call commands and with other signatures.
CommandsJsonB ==
    << Command(c_TALKMSG, <<Slot(<<"msg">>, <<"String">>, TRUE),
                            Slot(<<"label">>, <<"Label">>, TRUE)>>),
       Command(c_TIME_WAIT, <<Slot(<<"frames">>, <<"Number">>, FALSE)>>),
       Command(c_END, <<Slot(<<"sys">>, <<"System">>, TRUE)>>),
       Command(c_FLAG_SET, <<Slot(<<"flag">>, <<"Flag">>, FALSE),
                             Slot(<<"sysflag">>, <<"SysFlag">>, FALSE),
                             Slot(<<"text">>, <<"String", "Number">>, FALSE)>>),
       Command(c_IFVAL_CALL, <<Slot(<<"work">>, <<"Work">>, FALSE),
                               Slot(<<"cmp">>, <<"String">>, TRUE)>>) >>

\* the contents commands.json may have
CommandFiles == {CommandsJsonA, CommandsJsonB}

\* a null entry of the parsed array: reading its Name throws a TypeError
NullEntry == [null |-> TRUE]
IsNullEntry(cmd) == "Name" \notin DOMAIN cmd

\* the loop of loadCommands from entry k on; a throw ends the loop and leaves
\* the lookup as the entries before it set it
RECURSIVE LoadEntries(_, _, _)
LoadEntries(commands, k, lookup) ==
    IF k > Len(commands) THEN lookup
    ELSE IF IsNullEntry(commands[k]) THEN lookup
    ELSE LoadEntries(commands, k + 1,
                     IF commands[k].Name # <<>>
                     THEN MapSet(lookup, commands[k].Name, commands[k])
                     ELSE lookup)

\* loadCommands on a readable, parsable file: commandLookup.clear(), then the loop
LoadCommands(commands) == LoadEntries(commands, 1, <<>>)

\* the states commands.json may be in: absent (readFileSync throws), not JSON
\* (JSON.parse throws), JSON that is no array (the for-of throws after clear()),
\* or an array of entries
MissingFile    == [kind |-> "missing", entries |-> <<>>]
UnparsableFile == [kind |-> "unparsable", entries |-> <<>>]
NotAnArrayFile == [kind |-> "object", entries |-> <<>>]
ReadableFile(commands) == [kind |-> "array", entries |-> commands]

\* arrays with a null entry, and one whose entry has an empty Name
CommandsJsonNullFirst == <<NullEntry, Command(c_JUMP, <<>>)>>
CommandsJsonNullLater == <<Command(c_JUMP, <<>>), NullEntry, Command(c_TALKMSG, <<>>)>>
CommandsJsonNoName    == <<Command(<<>>, <<>>), Command(c_TALKMSG, <<>>)>>

LoadFiles ==
    {MissingFile, UnparsableFile, NotAnArrayFile}
    \cup {ReadableFile(commands) :
              commands \in {CommandsJsonA, CommandsJsonB, CommandsJsonNullFirst,
                            CommandsJsonNullLater, CommandsJsonNoName}}

\* the try block of loadCommands throws
LoadCommandsThrows(file) ==
    \/ file.kind # "array"
    \/ \E k \in 1..Len(file.entries) : IsNullEntry(file.entries[k])

\* loadCommands(filePath) with the file in state file and the lookup as it was:
\* a throw before commandLookup.clear() leaves the lookup untouched, the catch
\* block only logs
LoadCommandsFile(file, lookup) ==
    IF file.kind \in {"missing", "unparsable"} THEN lookup
    ELSE IF file.kind = "object" THEN <<>>
    ELSE LoadCommands(file.entries)

\* getCommand(name): <<>> (undefined) or <<Command>>
GetCommand(lookup, name) ==
    IF name \in DOMAIN lookup THEN <<lookup[name]>> ELSE <<>>

----------------------------------------------------------------------------
(* Validator: src/src/providers/diagnosticProvider.ts *)

VALID_COMPARATORS == {<<"G","E">>, <<"G","T">>, <<"L","E">>, <<"L","T">>,
                      <<"E","Q">>, <<"N","E">>}


\* the validator's table with the label of _OBJ_ANIME sought at index 0
DiagnosticJUMP_COMMANDS_ObjAnimeFirst ==
    [n \in {c_JUMP, c_CALL, c_IF_FLAGON_JUMP, c_IF_FLAGOFF_JUMP, c_IF_FLAGON_CALL,
            c_IF_FLAGOFF_CALL, c_IFVAL_JUMP, c_IFVAL_CALL, c_OBJ_ANIME} |->
        IF n \in {c_JUMP, c_CALL, c_OBJ_ANIME} THEN 0
        ELSE IF n \in {c_IFVAL_JUMP, c_IFVAL_CALL} THEN 3
        ELSE 1]

\* the validator's JUMP_COMMANDS: command name -> label argument index
DiagnosticJUMP_COMMANDS ==
    [n \in {c_JUMP, c_CALL, c_IF_FLAGON_JUMP, c_IF_FLAGOFF_JUMP, c_IF_FLAGON_CALL,
            c_IF_FLAGOFF_CALL, c_IFVAL_JUMP, c_IFVAL_CALL, c_OBJ_ANIME} |->
        IF n \in {c_JUMP, c_CALL} THEN 0
        ELSE IF n \in {c_IFVAL_JUMP, c_IFVAL_CALL} THEN 3
        ELSE 1]

IFVAL_COMMANDS == {c_IFVAL_JUMP, c_IFVAL_CALL}

\* `${n}` for a count: its decimal digits
RECURSIVE NumText(_)
NumText(n) ==
    LET d == <<"0","1","2","3","4","5","6","7","8","9">>
    IN  IF n < 10 THEN <<d[n + 1]>> ELSE Append(NumText(n \div 10), d[(n % 10) + 1])

\* types.join(' | ')
RECURSIVE JoinTypes(_)
JoinTypes(types) ==
    IF types = <<>> THEN <<>>
    ELSE IF Len(types) = 1 THEN types
    ELSE <<types[1], " | ">> \o JoinTypes(Tail(types))

\* createDiagnostic(range, message, severity); a message is the sequence of its
\* fixed phrases and of the characters of the texts interpolated into it
CreateDiagnostic(range, message, severity) ==
    [range |-> range, message |-> message, severity |-> severity,
     source |-> "bdsp-ev"]

\* the arity check with <= in place of <
ValidateArgumentCount_OffByOne(cmd, cmdDef) ==
    LET expectedArgs  == cmdDef.Args
        requiredCount == Len(SelectSeq(expectedArgs, LAMBDA a : ~a.Optional))
        maxCount      == Len(expectedArgs)
        actualCount   == Len(cmd.args)
    IN  IF actualCount <= requiredCount
        THEN <<CreateDiagnostic(cmd.range,
                    cmd.name \o <<" requires at least ">> \o NumText(requiredCount)
                        \o <<" argument(s), but got ">> \o NumText(actualCount),
                    "Error")>>
        ELSE IF actualCount > maxCount
        THEN <<CreateDiagnostic(cmd.range,
                    cmd.name \o <<" accepts at most ">> \o NumText(maxCount)
                        \o <<" argument(s), but got ">> \o NumText(actualCount),
                    "Warning")>>
        ELSE <<>>

\* validateArgumentCount(cmd, cmdDef): <<>> (null) or <<diagnostic>>
ValidateArgumentCount(cmd, cmdDef) ==
    LET expectedArgs  == cmdDef.Args
        requiredCount == Len(SelectSeq(expectedArgs, LAMBDA a : ~a.Optional))
        maxCount      == Len(expectedArgs)
        actualCount   == Len(cmd.args)
    IN  IF actualCount < requiredCount
        THEN <<CreateDiagnostic(cmd.range,
                    cmd.name \o <<" requires at least ">> \o NumText(requiredCount)
                        \o <<" argument(s), but got ">> \o NumText(actualCount),
                    "Error")>>
        ELSE IF actualCount > maxCount
        THEN <<CreateDiagnostic(cmd.range,
                    cmd.name \o <<" accepts at most ">> \o NumText(maxCount)
                        \o <<" argument(s), but got ">> \o NumText(actualCount),
                    "Warning")>>
        ELSE <<>>

\* the switch without the numeric-literal fallback of Work, Flag and SysFlag
TypeAccepts_NoNumericFallback(expectedType, argType) ==
    \/ expectedType = "Number" /\ argType = "number"
    \/ expectedType = "Work" /\ argType = "work"
    \/ expectedType = "Flag" /\ argType = "flag"
    \/ expectedType \in {"SysFlag", "System"} /\ argType = "sysflag"
    \/ expectedType = "Label" /\ argType = "string"
    \/ expectedType = "String" /\ argType = "string"

\* one case of the switch of isArgumentTypeValid
TypeAccepts(expectedType, argType) ==
    \/ expectedType = "Number" /\ argType = "number"
    \/ expectedType = "Work" /\ argType \in {"work", "number"}
    \/ expectedType = "Flag" /\ argType \in {"flag", "number"}
    \/ expectedType \in {"SysFlag", "System"} /\ argType \in {"sysflag", "number"}
    \/ expectedType = "Label" /\ argType = "string"
    \/ expectedType = "String" /\ argType = "string"

\* isArgumentTypeValid(arg, expectedTypes)
IsArgumentTypeValid(arg, expectedTypes) ==
    \/ \E k \in 1..Len(expectedTypes) : TypeAccepts(expectedTypes[k], arg.type)
    \/ arg.type = "unknown"

\* the loop of validateArgumentTypes from index i on
RECURSIVE TypeDiagnosticsFrom(_, _, _)
TypeDiagnosticsFrom(cmd, expectedArgs, i) ==
    IF ~(i < Len(cmd.args) /\ i < Len(expectedArgs)) THEN <<>>
    ELSE LET arg           == cmd.args[i + 1]
             expectedArg   == expectedArgs[i + 1]
             expectedTypes == expectedArg.Type
             here ==
                IF Len(expectedTypes) = 0 THEN <<>>
                ELSE IF ~IsArgumentTypeValid(arg, expectedTypes)
                THEN <<CreateDiagnostic(arg.range,
                          <<"Argument ">> \o NumText(i + 1) \o <<" (">>
                              \o expectedArg.TentativeName \o <<"): expected ">>
                              \o JoinTypes(expectedTypes) \o <<", got ">>
                              \o <<arg.type>>,
                          "Warning")>>
                ELSE <<>>
         IN  here \o TypeDiagnosticsFrom(cmd, expectedArgs, i + 1)

\* validateArgumentTypes(cmd, cmdDef)
ValidateArgumentTypes(cmd, cmdDef) == TypeDiagnosticsFrom(cmd, cmdDef.Args, 0)

\* the label check reporting at the command's range
ValidateLabelReference_AtCommand(cmd, cmdDef, labels) ==
    IF cmd.name \notin DOMAIN DiagnosticJUMP_COMMANDS THEN <<>>
    ELSE LET labelArgIndex == DiagnosticJUMP_COMMANDS[cmd.name]
             arg           == ArgAt(cmd.args, labelArgIndex)
         IN  IF arg = <<>> \/ arg[1].type # "string" THEN <<>>
             ELSE LET labelName == StripQuotes(arg[1].value)
                  IN  IF labelName \notin DOMAIN labels
                      THEN <<CreateDiagnostic(cmd.range,
                                  <<"Undefined label: ">> \o labelName, "Error")>>
                      ELSE <<>>

\* validateLabelReference(cmd, cmdDef, labels): <<>> (null) or <<diagnostic>>
ValidateLabelReference(cmd, cmdDef, labels) ==
    IF cmd.name \notin DOMAIN DiagnosticJUMP_COMMANDS THEN <<>>
    ELSE LET labelArgIndex == DiagnosticJUMP_COMMANDS[cmd.name]
             arg           == ArgAt(cmd.args, labelArgIndex)
         IN  IF arg = <<>> \/ arg[1].type # "string" THEN <<>>
             ELSE LET labelName == StripQuotes(arg[1].value)
                  IN  IF labelName \notin DOMAIN labels
                      THEN <<CreateDiagnostic(arg[1].range,
                                  <<"Undefined label: ">> \o labelName, "Error")>>
                      ELSE <<>>

\* the comparator check without the removal of quotes
ValidateComparator_KeepsQuotes(cmd, cmdDef) ==
    IF cmd.name \notin IFVAL_COMMANDS THEN <<>>
    ELSE LET arg == ArgAt(cmd.args, 1)
         IN  IF arg = <<>> THEN <<>>
             ELSE LET value == arg[1].value
                  IN  IF value \notin VALID_COMPARATORS
                      THEN <<CreateDiagnostic(arg[1].range,
                                  <<"Invalid comparator: ">> \o value
                                      \o <<". Expected one of: GE, GT, LE, LT, EQ, NE">>,
                                  "Error")>>
                      ELSE <<>>

\* validateComparator(cmd, cmdDef): <<>> (null) or <<diagnostic>>
ValidateComparator(cmd, cmdDef) ==
    IF cmd.name \notin IFVAL_COMMANDS THEN <<>>
    ELSE LET arg == ArgAt(cmd.args, 1)
         IN  IF arg = <<>> THEN <<>>
             ELSE LET value == StripQuotes(arg[1].value)
                  IN  IF value \notin VALID_COMPARATORS
                      THEN <<CreateDiagnostic(arg[1].range,
                                  <<"Invalid comparator: ">> \o value
                                      \o <<". Expected one of: GE, GT, LE, LT, EQ, NE">>,
                                  "Error")>>
                      ELSE <<>>

\* the loop body without the continue after the unknown-command diagnostic
CommandDiagnostics_NoContinue(cmd, lookup, labels) ==
    LET cmdDef == GetCommand(lookup, cmd.name)
    IN  IF cmdDef = <<>>
        THEN <<CreateDiagnostic(cmd.range, <<"Unknown command: ">> \o cmd.name,
                                "Error")>>
             \o ValidateLabelReference(cmd, <<>>, labels)
             \o ValidateComparator(cmd, <<>>)
        ELSE ValidateArgumentCount(cmd, cmdDef[1])
             \o ValidateArgumentTypes(cmd, cmdDef[1])
             \o ValidateLabelReference(cmd, cmdDef[1], labels)
             \o ValidateComparator(cmd, cmdDef[1])

\* the body of the loop of updateDiagnostics for one command
CommandDiagnostics(cmd, lookup, labels) ==
    LET cmdDef == GetCommand(lookup, cmd.name)
    IN  IF cmdDef = <<>>
        THEN <<CreateDiagnostic(cmd.range, <<"Unknown command: ">> \o cmd.name,
                                "Error")>>
        ELSE ValidateArgumentCount(cmd, cmdDef[1])
             \o ValidateArgumentTypes(cmd, cmdDef[1])
             \o ValidateLabelReference(cmd, cmdDef[1], labels)
             \o ValidateComparator(cmd, cmdDef[1])

\* the loop of updateDiagnostics from command k on
RECURSIVE DiagnosticsFrom(_, _, _)
DiagnosticsFrom(model, lookup, k) ==
    IF k > Len(model.commands) THEN <<>>
    ELSE CommandDiagnostics(model.commands[k], lookup, model.labels)
         \o DiagnosticsFrom(model, lookup, k + 1)

\* the diagnostics updateDiagnostics computes for a parsed bdsp-ev document
ComputeDiagnostics(model, lookup) == DiagnosticsFrom(model, lookup, 1)

----------------------------------------------------------------------------
(* Query surface: getActiveContext of src/src/utils/parser.ts *)

\* text.match(/([A-Z_][A-Z0-9_]*)\s*\(/g) from lastIndex on: the matched texts,
\* left to right, without overlap
RECURSIVE CmdMatchesFrom(_, _)
CmdMatchesFrom(text, lastIndex) ==
    LET starts == {p \in lastIndex..(Len(text) - 1) : CmdMatchesAt(text, p)}
    IN  IF starts = {} THEN <<>>
        ELSE LET p == CHOOSE q \in starts : \A r \in starts : q <= r
                 w == RunEnd(text, RunEnd(text, p + 1, CmdChar), Whitespace)
             IN  <<Substring(text, p, w + 1)>> \o CmdMatchesFrom(text, w + 1)

\* text.replace('(', ''): the first open parenthesis removed
RemoveFirstParen(text) ==
    LET k == IndexOf(text, <<"(">>, 0)
    IN  IF k < 0 THEN text
        ELSE Substring(text, 0, k) \o SubstringFrom(text, k + 1)

\* text.includes(ch)
Includes(text, ch) == \E k \in 1..Len(text) : text[k] = ch

\* openParenIndex of getActiveContext: the parenthesis the argument index is
\* measured from
OpenParenIndex(line, character) == LastIndexOf(Substring(line, 0, character), "(")

\* getActiveContext(document, position) on the line text: <<>> (null) or
\* <<[cmdName, argIndex]>>
GetActiveContext(line, character) ==
    LET textUntilPosition == Substring(line, 0, character)
        match == CmdMatchesFrom(textUntilPosition, 0)
    IN  IF match = <<>> THEN <<>>
        ELSE LET lastMatch          == match[Len(match)]
                 cmdName            == Trim(RemoveFirstParen(lastMatch))
                 openParenIndex     == OpenParenIndex(line, character)
                 textAfterOpenParen == SubstringFrom(textUntilPosition, openParenIndex)
             IN  IF Includes(textAfterOpenParen, ")") THEN <<>>
                 ELSE <<[cmdName |-> cmdName,
                         argIndex |-> CountChar(textAfterOpenParen, ",")]>>

\* [a-zA-Z0-9_\-], the characters after the prefix of /[@#$][a-zA-Z0-9_\-]+/g
PrefixStart == {"@", "#", "$"}
PrefixChar == IdentChar \cup {"-"}

\* the loop `while ((match = pattern.exec(line)) !== null)` of getWordAtPosition
\* from pattern.lastIndex on, for a pattern of one character of first followed
\* by at least min characters of rest: the first match spanning character, as
\* <<>> or <<[word, range]>>
RECURSIVE ExecLoop(_, _, _, _, _, _, _)
ExecLoop(line, lineNo, lastIndex, first, rest, min, character) ==
    IF lastIndex >= Len(line) THEN <<>>
    ELSE IF /\ At(line, lastIndex) \in first
            /\ RunEnd(line, lastIndex + 1, rest) - (lastIndex + 1) >= min
    THEN LET start == lastIndex
             end   == RunEnd(line, lastIndex + 1, rest)
         IN  IF character >= start /\ character <= end
             THEN <<[word |-> Substring(line, start, end),
                     range |-> Range(lineNo, start, end)]>>
             ELSE ExecLoop(line, lineNo, end, first, rest, min, character)
    ELSE ExecLoop(line, lineNo, lastIndex + 1, first, rest, min, character)

\* getWordAtPosition trying the patterns in the order label, command, prefix
GetWordAtPosition_LabelFirst(line, lineNo, character) ==
    LET prefixed == ExecLoop(line, lineNo, 0, PrefixStart, PrefixChar, 1, character)
        command  == ExecLoop(line, lineNo, 0, CmdStart, CmdChar, 0, character)
        label    == ExecLoop(line, lineNo, 0, IdentStart, IdentChar, 0, character)
    IN  IF label # <<>> THEN label
        ELSE IF command # <<>> THEN command
        ELSE prefixed

\* getWordAtPosition(document, position) on the line text at lineNo: <<>> (null)
\* or <<[word, range]>>
GetWordAtPosition(line, lineNo, character) ==
    LET prefixed == ExecLoop(line, lineNo, 0, PrefixStart, PrefixChar, 1, character)
        command  == ExecLoop(line, lineNo, 0, CmdStart, CmdChar, 0, character)
        label    == ExecLoop(line, lineNo, 0, IdentStart, IdentChar, 0, character)
    IN  IF prefixed # <<>> THEN prefixed
        ELSE IF command # <<>> THEN command
        ELSE label

----------------------------------------------------------------------------
(* Script texts the model types into the document *)

\* "name" and 'name'
Quoted(name) == <<"\"">> \o name \o <<"\"">>
SingleQuoted(name) == <<"'">> \o name \o <<"'">>

\* a, b, c
RECURSIVE JoinArgs(_)
JoinArgs(tokens) ==
    IF tokens = <<>> THEN <<>>
    ELSE IF Len(tokens) = 1 THEN tokens[1]
    ELSE tokens[1] \o <<",", " ">> \o JoinArgs(Tail(tokens))

\* NAME(a, b, c)
Call(name, tokens) == name \o <<"(">> \o JoinArgs(tokens) \o <<")">>

l_ev == <<"e","v">>
l_no == <<"n","o">>
t_work == <<"@","W">>
t_flag == <<"#","F">>
t_sysflag == <<"$","S">>
t_number == <<"5">>
t_EQ == <<"E","Q">>
t_XX == <<"X","X">>

\* the lines a script of the document-level specification is made of
ScriptLines ==
    { l_ev \o <<":">>,
      l_no \o <<":">>,
      <<" ", " ">> \o l_ev \o <<":">>,
      <<";", " ">> \o l_no \o <<":">>,
      Call(c_JUMP, <<Quoted(l_ev)>>),
      <<" ", " ">> \o Call(c_CALL, <<SingleQuoted(l_no)>>),
      Call(c_IFVAL_JUMP, <<t_work, t_EQ, t_number, Quoted(l_ev)>>),
      Call(c_IF_FLAGON_JUMP, <<t_flag, Quoted(l_no)>>),
      l_ev \o <<":", " ">> \o Call(c_JUMP, <<Quoted(l_ev)>>),
      Call(c_JUMP, <<l_ev>>),
      Call(c_TALKMSG, <<Quoted(l_no)>>),
      <<"/", "/", " ">> \o Call(c_JUMP, <<Quoted(l_no)>>),
      Call(c_OBJ_ANIME, <<t_number, Quoted(l_ev)>>),
      Call(c_FOO, <<Quoted(l_no)>>) }

\* bound: lines of a document
MaxLines == 3

----------------------------------------------------------------------------
(* Events: src/src/extension.ts and updateDiagnostics *)

\* the last line of the document and the document with that line replaced
LastLine(doc) == doc[Len(doc)]
WithLastLine(doc, text) == [doc EXCEPT ![Len(doc)] = text]

\* the observer notes an analysis of another text after the one it remembers
Observe(memo, doc) ==
    IF memo # <<>> /\ memo[1].text # doc
    THEN <<[memo[1] EXCEPT !.between = TRUE]>>
    ELSE memo

\* updateDiagnostics(document) for a bdsp-ev document: parseDocument, the loop
\* over the commands, diagnosticCollection.set
UpdateDiagnostics(doc, lookup) ==
    /\ parsed' = ParseDocument(doc)
    /\ diagnostics' = ComputeDiagnostics(parsed', lookup)
    /\ remembered' = Observe(remembered, doc)

\* a change event of the host: onDidChangeTextDocument's handler
ChangeTo(doc) ==
    /\ activated
    /\ isOpen
    /\ document' = doc
    /\ UpdateDiagnostics(doc, commandLookup)
    /\ UNCHANGED <<commandLookup, activated, isOpen, errorLog, workspaceVars>>

\* activate() with commands.json in state file: load the registry, then update
\* the diagnostics of open documents
ActivateFrom(file) ==
    /\ ~activated
    /\ isOpen
    /\ activated' = TRUE
    /\ commandLookup' = LoadCommandsFile(file, commandLookup)
    /\ errorLog' = IF LoadCommandsThrows(file)
                   THEN Append(errorLog, "Failed to load commands.json:")
                   ELSE errorLog
    /\ UpdateDiagnostics(document, commandLookup')
    /\ UNCHANGED <<document, isOpen, cursor, activeContext, wordInfo, workspaceVars>>

\* activate() with a readable commands.json holding the array commands
ActivateWith(commands) == ActivateFrom(ReadableFile(commands))

Activate == \E commands \in CommandFiles : ActivateWith(commands)

\* the host opens the document: onDidOpenTextDocument's handler once activated
OpenDocument ==
    /\ ~isOpen
    /\ isOpen' = TRUE
    /\ IF activated
       THEN UpdateDiagnostics(document, commandLookup)
       ELSE UNCHANGED <<parsed, diagnostics, remembered>>
    /\ UNCHANGED <<commandLookup, activated, document, cursor, activeContext,
                   errorLog, wordInfo, workspaceVars>>

\* the host closes the document: onDidCloseTextDocument's handler
CloseDocument ==
    /\ activated
    /\ isOpen
    /\ isOpen' = FALSE
    /\ diagnostics' = <<>>
    /\ UNCHANGED <<commandLookup, activated, document, parsed, remembered, cursor,
                   activeContext, errorLog, wordInfo, workspaceVars>>

\* the user adds a line at the end of a script of fewer than maxLines lines
AppendLineUpTo(maxLines) ==
    \E text \in ScriptLines :
        /\ \/ document = << <<>> >>
           \/ Len(document) < maxLines
        /\ ChangeTo(IF document = << <<>> >> THEN <<text>>
                    ELSE Append(document, text))
        /\ UNCHANGED <<cursor, activeContext, wordInfo>>

\* the user deletes the last line of the script
DeleteLastLine ==
    /\ document # << <<>> >>
    /\ ChangeTo(IF Len(document) = 1 THEN << <<>> >>
                ELSE SubSeq(document, 1, Len(document) - 1))
    /\ UNCHANGED <<cursor, activeContext, wordInfo>>

\* bound: documents of the workspace
MaxDocs == 2

\* the documents of the workspace, by uri
Uris == 1..MaxDocs

\* a document the host has not opened, or has closed
ClosedDocument == [isOpen |-> FALSE, languageId |-> "", text |-> << <<>> >>]

\* the state after construction: an empty registry, nothing analysed
Init ==
    /\ commandLookup = <<>>
    /\ activated = FALSE
    /\ document = << <<>> >>
    /\ isOpen = FALSE
    /\ diagnostics = <<>>
    /\ parsed = [labels |-> <<>>, commands |-> <<>>, labelReferences |-> <<>>]
    /\ remembered = <<>>
    /\ cursor = 0
    /\ activeContext = <<>>
    /\ errorLog = <<>>
    /\ wordInfo = <<>>
    /\ documents = [uri \in Uris |-> ClosedDocument]
    /\ collection = <<>>

Next ==
    \/ Activate
    \/ OpenDocument
    \/ CloseDocument
    \/ AppendLineUpTo(MaxLines)
    \/ DeleteLastLine

\* the document-level specification: scripts of whole lines
Spec == Init /\ [][Next]_vars

----------------------------------------------------------------------------
(* Typing one command call: the command-level specification *)

\* the command names the user types
CmdNames ==
    {c_JUMP, c_IFVAL_JUMP, c_IFVAL_CALL, c_TALKMSG, c_END, c_SYS, c_LDVAL, c_FOO}

\* the argument texts the user types, one of each kind the classifier knows;
\* the string is a quoted comparator
ArgTokens ==
    {t_work, t_flag, t_sysflag, Quoted(t_EQ), t_number, t_EQ, t_XX}

\* bound: arguments typed into one call
MaxArgs == 3

\* the line is a call closed by the editor's auto-closing parenthesis
IsClosedCall(text) == text # <<>> /\ text[Len(text)] = ")"

\* number of arguments typed into a closed call whose arguments hold no comma
TypedArgs(text) ==
    IF text[Len(text) - 1] = "(" THEN 0 ELSE CountChar(text, ",") + 1

\* the user types a command name; the editor closes the parenthesis
TypeCommand ==
    \E name \in CmdNames :
        /\ document = << <<>> >>
        /\ ChangeTo(<<name \o <<"(", ")">>>>)
        /\ UNCHANGED <<cursor, activeContext, wordInfo>>

\* the user types one more argument before the closing parenthesis
TypeArgument ==
    \E token \in ArgTokens :
        LET text == LastLine(document)
            body == SubSeq(text, 1, Len(text) - 1)
        IN  /\ Len(document) = 1
            /\ IsClosedCall(text)
            /\ TypedArgs(text) < MaxArgs
            /\ ChangeTo(<<body
                          \o (IF TypedArgs(text) = 0 THEN <<>> ELSE <<",", " ">>)
                          \o token \o <<")">>>>)
            /\ UNCHANGED <<cursor, activeContext, wordInfo>>

NextCmd ==
    \/ Activate
    \/ OpenDocument
    \/ TypeCommand
    \/ TypeArgument

SpecCmd == Init /\ [][NextCmd]_vars

----------------------------------------------------------------------------
(* Typing characters: the argument-level and the query-level specifications *)

\* the characters typed into the argument list of an open call
ArgChars == {"\"", "'", ",", "a", " "}

\* the characters typed on a line while signature help follows the cursor
QueryChars == {"A", "B", "(", ")", ",", "\""}

\* bound: characters typed into the argument list
MaxArgChars == 6

\* bound: characters typed on the queried line
MaxQueryChars == 5

\* TALKMSG( as typed before its arguments
OpenCall == c_TALKMSG \o <<"(">>

\* one typed text: the change event updates the diagnostics, and the completion
\* and signature-help providers ask for the active context at the cursor, which
\* typing leaves at the end of the line (getActiveContext reads the line up to
\* the cursor only)
TypeText(text) ==
    /\ Len(document) = 1
    /\ ChangeTo(<<LastLine(document) \o text>>)
    /\ cursor' = Len(LastLine(document) \o text)
    /\ activeContext' = GetActiveContext(LastLine(document) \o text, cursor')
    /\ UNCHANGED wordInfo

\* the user starts a call and leaves it open
TypeOpenCall ==
    /\ document = << <<>> >>
    /\ TypeText(OpenCall)

\* the user types one character of the argument list of the open call
TypeArgChar ==
    \E char \in ArgChars :
        /\ StartsWith(LastLine(document), OpenCall)
        /\ Len(LastLine(document)) - Len(OpenCall) < MaxArgChars
        /\ TypeText(<<char>>)

NextArgs ==
    \/ ActivateWith(CommandsJsonA)
    \/ OpenDocument
    \/ TypeOpenCall
    \/ TypeArgChar

\* the argument-level specification: the argument list typed character by
\* character
SpecArgs == Init /\ [][NextArgs]_vars

\* the user types one character on the queried line
TypeQueryChar ==
    \E char \in QueryChars :
        /\ Len(LastLine(document)) < MaxQueryChars
        /\ TypeText(<<char>>)

NextQuery ==
    \/ ActivateWith(CommandsJsonA)
    \/ OpenDocument
    \/ TypeQueryChar

\* the query-level specification: a line typed with the cursor at its end
SpecQuery == Init /\ [][NextQuery]_vars

----------------------------------------------------------------------------
(* Analysing a text again: the re-analysis specification *)

\* bound: lines of a document that is analysed again
MaxReparseLines == 1

\* the observer remembers the analysed text and the model parseDocument returned
Remember ==
    /\ activated
    /\ isOpen
    /\ remembered' = <<[text |-> document, model |-> parsed, between |-> FALSE]>>
    /\ UNCHANGED <<commandLookup, activated, document, isOpen, diagnostics, parsed,
                   cursor, activeContext, errorLog, wordInfo, workspaceVars>>

NextReparse ==
    \/ ActivateWith(CommandsJsonA)
    \/ OpenDocument
    \/ CloseDocument
    \/ AppendLineUpTo(MaxReparseLines)
    \/ DeleteLastLine
    \/ Remember

SpecReparse == Init /\ [][NextReparse]_vars

----------------------------------------------------------------------------
(* Typing one argument token: the token specification *)

\* the characters of an argument token
TokenChars == {"@", "#", "$", "\"", "'", "-", "5", ".", "E", "Q", "a", " "}

\* bound: characters of the token
MaxTokenChars == 3

\* the user types one character of the token of the open call
TypeTokenChar ==
    \E char \in TokenChars :
        /\ StartsWith(LastLine(document), OpenCall)
        /\ Len(LastLine(document)) - Len(OpenCall) < MaxTokenChars
        /\ TypeText(<<char>>)

NextTokens ==
    \/ Activate
    \/ OpenDocument
    \/ TypeOpenCall
    \/ TypeTokenChar

SpecTokens == Init /\ [][NextTokens]_vars

----------------------------------------------------------------------------
(* Declaring labels: the label specification *)

l_EV == <<"E", "V">>

\* lines that declare labels, repeat them, differ in case only, or do not declare
LabelLines ==
    { l_ev \o <<":">>,
      l_EV \o <<":">>,
      l_no \o <<":">>,
      l_ev \o <<":", " ">> \o Call(c_JUMP, <<Quoted(l_EV)>>),
      <<" ">> \o l_ev \o <<":">>,
      <<";", " ">> \o l_no \o <<":">>,
      l_no,
      <<>> }

\* bound: lines of a script of label lines
MaxLabelLines == 3

\* the user adds a label line at the end of the script
AppendLabelLine ==
    \E text \in LabelLines :
        /\ \/ document = << <<>> >>
           \/ Len(document) < MaxLabelLines
        /\ ChangeTo(IF document = << <<>> >> THEN <<text>>
                    ELSE Append(document, text))
        /\ UNCHANGED <<cursor, activeContext, wordInfo>>

NextLabels ==
    \/ ActivateWith(CommandsJsonA)
    \/ OpenDocument
    \/ AppendLabelLine
    \/ DeleteLastLine

SpecLabels == Init /\ [][NextLabels]_vars

----------------------------------------------------------------------------
(* Typing parentheses and quotes: the parenthesis specification *)

\* the characters typed after the open parenthesis of the call
ParenChars == {"\"", "(", ")", "a"}

\* bound: characters typed after the open parenthesis
MaxParenChars == 4

\* the user types one character after the open parenthesis of the call
TypeParenChar ==
    \E char \in ParenChars :
        /\ StartsWith(LastLine(document), OpenCall)
        /\ Len(LastLine(document)) - Len(OpenCall) < MaxParenChars
        /\ TypeText(<<char>>)

NextParens ==
    \/ ActivateWith(CommandsJsonA)
    \/ OpenDocument
    \/ TypeOpenCall
    \/ TypeParenChar

SpecParens == Init /\ [][NextParens]_vars

----------------------------------------------------------------------------
(* Calls left open: the open-call specification *)

\* a call without its close parenthesis
OpenCallOf(name, tokens) == name \o <<"(">> \o JoinArgs(tokens)

\* lines with calls left open, among terminated calls and labels
OpenLines ==
    { OpenCallOf(c_JUMP, <<Quoted(l_ev)>>),
      OpenCallOf(c_TALKMSG, <<Quoted(l_no), t_number>>),
      OpenCallOf(c_LDVAL, <<t_work, <<"(">> \o t_number \o <<")">>, t_XX>>),
      OpenCallOf(c_END, <<>>),
      <<" ">> \o OpenCallOf(c_IF_FLAGON_JUMP, <<t_flag, SingleQuoted(l_no)>>),
      Call(c_JUMP, <<Quoted(l_ev)>>),
      Call(c_TALKMSG, <<Quoted(l_no)>>),
      l_ev \o <<":">> }

\* bound: lines of a script with calls left open
MaxOpenLines == 3

\* the user adds a line at the end of the script
AppendOpenLine ==
    \E text \in OpenLines :
        /\ \/ document = << <<>> >>
           \/ Len(document) < MaxOpenLines
        /\ ChangeTo(IF document = << <<>> >> THEN <<text>>
                    ELSE Append(document, text))
        /\ UNCHANGED <<cursor, activeContext, wordInfo>>

NextOpen ==
    \/ ActivateWith(CommandsJsonA)
    \/ OpenDocument
    \/ AppendOpenLine
    \/ DeleteLastLine

SpecOpen == Init /\ [][NextOpen]_vars

----------------------------------------------------------------------------
(* Hovering over a line: the hover specification *)

\* the characters of a hovered line
HoverChars == {"@", "#", "A", "a", "1", "-"}

\* bound: characters of the hovered line
MaxHoverChars == 3

\* the user types one character on the line
TypeHoverChar ==
    \E char \in HoverChars :
        /\ Len(LastLine(document)) < MaxHoverChars
        /\ TypeText(<<char>>)

\* the host asks for a hover at a column of the last line: provideHover calls
\* getWordAtPosition
Hover ==
    \E character \in 0..Len(LastLine(document)) :
        /\ activated
        /\ isOpen
        /\ wordInfo' = <<[text |-> LastLine(document), character |-> character,
                          result |-> GetWordAtPosition(LastLine(document),
                                                       Len(document) - 1, character)]>>
        /\ UNCHANGED <<commandLookup, activated, document, isOpen, diagnostics,
                       parsed, remembered, cursor, activeContext, errorLog,
                       workspaceVars>>

NextHover ==
    \/ ActivateWith(CommandsJsonA)
    \/ OpenDocument
    \/ TypeHoverChar
    \/ Hover

SpecHover == Init /\ [][NextHover]_vars

----------------------------------------------------------------------------
(* Comments and blank lines: the comment specification *)

\* comment and blank lines shaped like labels and commands, among code lines
CommentLines ==
    { <<";", " ">> \o l_ev \o <<":">>,
      <<"/", "/", " ">> \o Call(c_JUMP, <<Quoted(l_ev)>>),
      <<" ", " ", ";">> \o Call(c_JUMP, <<Quoted(l_ev)>>),
      <<"\t", "/", "/">> \o l_no \o <<":">>,
      <<" ", "\t">>,
      l_ev \o <<":", " ">> \o Call(c_JUMP, <<Quoted(l_no)>>),
      Call(c_JUMP, <<Quoted(l_ev)>>),
      l_no \o <<":">> }

\* bound: lines of a script with comments
MaxCommentLines == 3

\* the user adds a line at the end of the script
AppendCommentLine ==
    \E text \in CommentLines :
        /\ \/ document = << <<>> >>
           \/ Len(document) < MaxCommentLines
        /\ ChangeTo(IF document = << <<>> >> THEN <<text>>
                    ELSE Append(document, text))
        /\ UNCHANGED <<cursor, activeContext, wordInfo>>

NextComments ==
    \/ ActivateWith(CommandsJsonA)
    \/ OpenDocument
    \/ AppendCommentLine
    \/ DeleteLastLine

SpecComments == Init /\ [][NextComments]_vars

----------------------------------------------------------------------------
(* Several documents: the workspace specification *)

\* the language identifiers of documents
LanguageIds == {"bdsp-ev", "plaintext"}

\* the texts a document of the workspace may hold
DocTexts ==
    { << Call(c_JUMP, <<Quoted(l_ev)>>) >>,
      << l_ev \o <<":">>, Call(c_JUMP, <<Quoted(l_ev)>>) >>,
      << Call(c_FOO, <<Quoted(l_no)>>) >>,
      << Call(c_TALKMSG, <<>>), Call(c_IFVAL_CALL, <<t_work, t_XX>>) >> }

\* Map.delete(key) on a Map held as a function
MapDelete(map, key) == [k \in (DOMAIN map) \ {key} |-> map[k]]

\* updateDiagnostics adding to the diagnostics stored for the uri
UpdateCollection_Appends(coll, uri, doc, lookup) ==
    IF doc.languageId # "bdsp-ev" THEN coll
    ELSE MapSet(coll, uri,
                (IF uri \in DOMAIN coll THEN coll[uri] ELSE <<>>)
                \o ComputeDiagnostics(ParseDocument(doc.text), lookup))

\* updateDiagnostics(document) on the diagnostic collection: the language guard,
\* parseDocument, the validation loop, diagnosticCollection.set(uri, diagnostics)
UpdateCollection(coll, uri, doc, lookup) ==
    IF doc.languageId # "bdsp-ev" THEN coll
    ELSE MapSet(coll, uri, ComputeDiagnostics(ParseDocument(doc.text), lookup))

\* vscode.workspace.textDocuments.forEach(...) of activate over the uris from
\* uri on
RECURSIVE UpdateOpenDocuments(_, _, _, _)
UpdateOpenDocuments(coll, uri, docs, lookup) ==
    IF uri > MaxDocs THEN coll
    ELSE UpdateOpenDocuments(
             IF docs[uri].isOpen /\ docs[uri].languageId = "bdsp-ev"
             THEN UpdateCollection(coll, uri, docs[uri], lookup)
             ELSE coll,
             uri + 1, docs, lookup)

\* activate() in a workspace: load the registry, register the handlers, update
\* the diagnostics of the documents already open
ActivateWorkspace ==
    \E file \in LoadFiles :
        /\ ~activated
        /\ activated' = TRUE
        /\ commandLookup' = LoadCommandsFile(file, commandLookup)
        /\ errorLog' = IF LoadCommandsThrows(file)
                       THEN Append(errorLog, "Failed to load commands.json:")
                       ELSE errorLog
        /\ collection' = UpdateOpenDocuments(collection, 1, documents, commandLookup')
        /\ UNCHANGED <<documents, documentVars>>

\* the host opens a document: onDidOpenTextDocument's handler once activated
OpenTextDocument ==
    \E uri \in Uris, languageId \in LanguageIds, text \in DocTexts :
        /\ ~documents[uri].isOpen
        /\ documents' = [documents EXCEPT ![uri] =
                             [isOpen |-> TRUE, languageId |-> languageId,
                              text |-> text]]
        /\ collection' = IF activated /\ languageId = "bdsp-ev"
                         THEN UpdateCollection(collection, uri, documents'[uri],
                                               commandLookup)
                         ELSE collection
        /\ UNCHANGED <<commandLookup, activated, errorLog, documentVars>>

\* the text of an open document changes: onDidChangeTextDocument's handler once
\* activated
ChangeTextDocument ==
    \E uri \in Uris, text \in DocTexts :
        /\ documents[uri].isOpen
        /\ text # documents[uri].text
        /\ documents' = [documents EXCEPT ![uri].text = text]
        /\ collection' = IF activated /\ documents[uri].languageId = "bdsp-ev"
                         THEN UpdateCollection(collection, uri, documents'[uri],
                                               commandLookup)
                         ELSE collection
        /\ UNCHANGED <<commandLookup, activated, errorLog, documentVars>>

\* the host closes a document: onDidCloseTextDocument's handler once activated
CloseTextDocument ==
    \E uri \in Uris :
        /\ documents[uri].isOpen
        /\ documents' = [documents EXCEPT ![uri] = ClosedDocument]
        /\ collection' = IF activated THEN MapDelete(collection, uri)
                         ELSE collection
        /\ UNCHANGED <<commandLookup, activated, errorLog, documentVars>>

NextWorkspace ==
    \/ ActivateWorkspace
    \/ OpenTextDocument
    \/ ChangeTextDocument
    \/ CloseTextDocument

SpecWorkspace == Init /\ [][NextWorkspace]_vars

----------------------------------------------------------------------------
(* Loading the registry: the load specification *)

\* bound: lines of a script analysed against a registry that may have failed
\* to load
MaxLoadLines == 1

\* activate() with commands.json in any of its states
ActivateAnyFile == \E file \in LoadFiles : ActivateFrom(file)

NextLoad ==
    \/ ActivateAnyFile
    \/ OpenDocument
    \/ CloseDocument
    \/ AppendLineUpTo(MaxLoadLines)
    \/ DeleteLastLine

SpecLoad == Init /\ [][NextLoad]_vars

----------------------------------------------------------------------------
(* Properties *)

\* the stored diagnostics are those of the current text of the open document
Analysed == activated /\ isOpen

\* the diagnostics reported on line l; a line holds at most one command, so
\* these are the diagnostics of the command of line l
DiagsOnLine(l) == SelectSeq(diagnostics, LAMBDA d : d.range.line = l)

\* the diagnostics of line l whose message holds the fixed phrase
DiagsWithPhrase(l, phrase) ==
    SelectSeq(DiagsOnLine(l),
              LAMBDA d : \E k \in 1..Len(d.message) : d.message[k] = phrase)

Registered(cmd) == cmd.name \in DOMAIN commandLookup

\* a diagnostic as the host shows it
Diagnostic(range, message, severity) ==
    [range |-> range, message |-> message, severity |-> severity,
     source |-> "bdsp-ev"]

\* C1: a command whose name is not in the registry gets exactly one diagnostic,
\* the error "Unknown command: <name>" at the command's range, and no arity,
\* type, label or comparator diagnostic, whatever its arguments are.
UnknownCommandReportedAlone ==
    Analysed =>
        \A k \in 1..Len(parsed.commands) :
            LET cmd == parsed.commands[k]
            IN  ~Registered(cmd) =>
                    DiagsOnLine(cmd.line) =
                        <<Diagnostic(cmd.range, <<"Unknown command: ">> \o cmd.name,
                                     "Error")>>

\* C1 witness: an unregistered _IFVAL_JUMP with an invalid comparator at index 1
\* and a quoted string as last argument has been validated.
UnknownJumpCommandValidated ==
    /\ Analysed
    /\ \E k \in 1..Len(parsed.commands) :
          LET cmd == parsed.commands[k]
          IN  /\ ~Registered(cmd)
              /\ cmd.name = c_IFVAL_JUMP
              /\ Len(cmd.args) = 3
              /\ cmd.args[2].value = t_XX
              /\ cmd.args[3].type = "string"
              /\ Len(DiagsOnLine(cmd.line)) = 1

\* the slots of the claim's table: command name -> index of the label argument
LabelSlot ==
    [n \in {c_JUMP, c_CALL, c_IF_FLAGON_JUMP, c_IF_FLAGOFF_JUMP, c_IF_FLAGON_CALL,
            c_IF_FLAGOFF_CALL, c_IFVAL_JUMP, c_IFVAL_CALL, c_OBJ_ANIME} |->
        IF n \in {c_JUMP, c_CALL} THEN 0
        ELSE IF n \in {c_IFVAL_JUMP, c_IFVAL_CALL} THEN 3
        ELSE 1]

\* name is an identifier: a letter or underscore, then letters, digits, underscores
IsIdentifier(name) ==
    /\ name # <<>>
    /\ name[1] \in IdentStart
    /\ \A k \in 1..Len(name) : name[k] \in IdentChar

\* the line text declares the label name: it begins with name followed by a colon
LineDeclares(text, name) ==
    /\ IsIdentifier(name)
    /\ Len(text) > Len(name)
    /\ \A k \in 1..Len(name) : text[k] = name[k]
    /\ text[Len(name) + 1] = ":"

\* the command has a quoted string in its label slot
HasQuotedLabel(cmd) ==
    /\ cmd.name \in DOMAIN LabelSlot
    /\ Len(cmd.args) > LabelSlot[cmd.name]
    /\ cmd.args[LabelSlot[cmd.name] + 1].type = "string"

LabelArg(cmd) == cmd.args[LabelSlot[cmd.name] + 1]

\* the name with every quote character removed
Unquoted(value) == StripQuotes(value)

\* C2: a registered jump/call command whose label argument is a quoted string
\* naming a label that no line declares gets exactly one "Undefined label: <name>"
\* error, and its range is that argument's range.
UndefinedLabelReportedAtArgument ==
    Analysed =>
        \A k \in 1..Len(parsed.commands) :
            LET cmd == parsed.commands[k]
            IN  (/\ Registered(cmd)
                 /\ HasQuotedLabel(cmd)
                 /\ \A l \in 1..Len(document) :
                        ~LineDeclares(document[l], Unquoted(LabelArg(cmd).value)))
                => DiagsWithPhrase(cmd.line, "Undefined label: ") =
                       <<Diagnostic(LabelArg(cmd).range,
                                    <<"Undefined label: ">>
                                        \o Unquoted(LabelArg(cmd).value),
                                    "Error")>>

\* C2 witness: a registered _IFVAL_JUMP names, at index 3, a label no line
\* declares while the document declares another label, and the error is stored.
UndefinedLabelValidated ==
    /\ Analysed
    /\ \E k \in 1..Len(parsed.commands) :
          LET cmd == parsed.commands[k]
          IN  /\ Registered(cmd)
              /\ cmd.name = c_IFVAL_JUMP
              /\ HasQuotedLabel(cmd)
              /\ \A l \in 1..Len(document) :
                     ~LineDeclares(document[l], Unquoted(LabelArg(cmd).value))
              /\ \E l \in 1..Len(document) : LineDeclares(document[l], l_no)
              /\ Len(DiagsWithPhrase(cmd.line, "Undefined label: ")) = 1

\* C3: a jump/call command whose quoted label is declared by an earlier line gets
\* no "Undefined label" diagnostic.
DeclaredLabelNotReported ==
    Analysed =>
        \A k \in 1..Len(parsed.commands) :
            LET cmd == parsed.commands[k]
            IN  (/\ HasQuotedLabel(cmd)
                 /\ \E l \in 1..cmd.line :
                        LineDeclares(document[l], Unquoted(LabelArg(cmd).value)))
                => DiagsWithPhrase(cmd.line, "Undefined label: ") = <<>>

\* C3 witness: a registered jump names a label declared two lines above it, on a
\* line that also holds a command, and another label is declared in between.
DeclaredLabelValidated ==
    /\ Analysed
    /\ Len(document) = 3
    /\ LineDeclares(document[1], l_ev)
    /\ Len(document[1]) > 3
    /\ LineDeclares(document[2], l_no)
    /\ \E k \in 1..Len(parsed.commands) :
          LET cmd == parsed.commands[k]
          IN  /\ Registered(cmd)
              /\ cmd.line = 2
              /\ HasQuotedLabel(cmd)
              /\ Unquoted(LabelArg(cmd).value) = l_ev

\* number of slots not marked optional
RequiredSlots(cmdDef) ==
    Cardinality({k \in 1..Len(cmdDef.Args) : ~cmdDef.Args[k].Optional})

\* C4: for a registered command with r required slots and t slots called with n
\* arguments, the error "requires at least r ..., but got n" is reported iff
\* n < r, the warning "accepts at most t ..., but got n" iff n > t, and at most
\* one of the two.
ArityReportedExactly ==
    Analysed =>
        \A k \in 1..Len(parsed.commands) :
            LET cmd == parsed.commands[k]
            IN  Registered(cmd) =>
                LET r == RequiredSlots(commandLookup[cmd.name])
                    t == Len(commandLookup[cmd.name].Args)
                    n == Len(cmd.args)
                    tooFew  == DiagsWithPhrase(cmd.line, " requires at least ")
                    tooMany == DiagsWithPhrase(cmd.line, " accepts at most ")
                IN  /\ tooFew =
                          IF n < r
                          THEN <<Diagnostic(cmd.range,
                                     cmd.name \o <<" requires at least ">>
                                         \o NumText(r)
                                         \o <<" argument(s), but got ">>
                                         \o NumText(n),
                                     "Error")>>
                          ELSE <<>>
                    /\ tooMany =
                          IF n > t
                          THEN <<Diagnostic(cmd.range,
                                     cmd.name \o <<" accepts at most ">>
                                         \o NumText(t)
                                         \o <<" argument(s), but got ">>
                                         \o NumText(n),
                                     "Warning")>>
                          ELSE <<>>
                    /\ Len(tooFew) + Len(tooMany) <= 1

\* C4 witness: a registered command with an optional slot is called with more
\* arguments than it has slots and the warning is stored.
TooManyArgumentsValidated ==
    /\ Analysed
    /\ \E k \in 1..Len(parsed.commands) :
          LET cmd == parsed.commands[k]
          IN  /\ Registered(cmd)
              /\ RequiredSlots(commandLookup[cmd.name]) = 1
              /\ Len(commandLookup[cmd.name].Args) = 2
              /\ Len(cmd.args) = 3
              /\ Len(DiagsWithPhrase(cmd.line, " accepts at most ")) = 1

\* the claim's table: accepted type -> compatible argument kinds
CompatibleKinds(type) ==
    CASE type = "Number" -> {"number"}
      [] type = "Work" -> {"work", "number"}
      [] type = "Flag" -> {"flag", "number"}
      [] type \in {"SysFlag", "System"} -> {"sysflag", "number"}
      [] type = "Label" -> {"string"}
      [] type = "String" -> {"string"}
      [] OTHER -> {}

\* argument i (zero-based) of cmd mismatches slot i of cmdDef
TypeMismatch(cmd, cmdDef, i) ==
    /\ cmdDef.Args[i + 1].Type # <<>>
    /\ cmd.args[i + 1].type # "unknown"
    /\ \A j \in 1..Len(cmdDef.Args[i + 1].Type) :
           cmd.args[i + 1].type \notin CompatibleKinds(cmdDef.Args[i + 1].Type[j])

\* the type diagnostics of line l that cite the one-based position
TypeDiagsAt(l, position) ==
    SelectSeq(DiagsWithPhrase(l, "Argument "),
              LAMBDA d : d.message[2] = NumText(position)[1])

\* C5: for a registered command, a position below both the argument count and
\* the slot count gets a type warning at the argument's range iff its slot has a
\* non-empty type set and the argument's kind is neither unclassified nor
\* compatible with an accepted type; no other type diagnostic is reported.
TypeMismatchReportedExactly ==
    Analysed =>
        \A k \in 1..Len(parsed.commands) :
            LET cmd == parsed.commands[k]
            IN  Registered(cmd) =>
                LET cmdDef == commandLookup[cmd.name]
                    both   == {i \in 0..(Len(cmd.args) - 1) : i < Len(cmdDef.Args)}
                IN  /\ \A i \in both :
                          TypeDiagsAt(cmd.line, i + 1) =
                              IF TypeMismatch(cmd, cmdDef, i)
                              THEN <<Diagnostic(cmd.args[i + 1].range,
                                        <<"Argument ">> \o NumText(i + 1) \o <<" (">>
                                            \o cmdDef.Args[i + 1].TentativeName
                                            \o <<"): expected ">>
                                            \o JoinTypes(cmdDef.Args[i + 1].Type)
                                            \o <<", got ">>
                                            \o <<cmd.args[i + 1].type>>,
                                        "Warning")>>
                              ELSE <<>>
                    /\ Len(DiagsWithPhrase(cmd.line, "Argument ")) =
                           Cardinality({i \in both : TypeMismatch(cmd, cmdDef, i)})

\* C5 witness: a registered command has a comparator in a typed slot (reported),
\* an unclassified argument in a typed slot (not reported), a number in a Work
\* slot and an argument beyond its slots.
TypeMismatchValidated ==
    /\ Analysed
    /\ \E k \in 1..Len(parsed.commands) :
          LET cmd == parsed.commands[k]
          IN  /\ Registered(cmd)
              /\ Len(cmd.args) = 3
              /\ Len(commandLookup[cmd.name].Args) = 2
              /\ commandLookup[cmd.name].Args[1].Type = <<"Work">>
              /\ cmd.args[1].type = "comparator"
              /\ cmd.args[2].type = "unknown"
              /\ commandLookup[cmd.name].Args[2].Type # <<>>
              /\ Len(DiagsWithPhrase(cmd.line, "Argument ")) = 1

\* the six comparator keywords of the claim
ComparatorKeywords ==
    {<<"G","E">>, <<"G","T">>, <<"L","E">>, <<"L","T">>, <<"E","Q">>, <<"N","E">>}

\* C6: exactly one "Invalid comparator" error citing the value is reported, at
\* the range of argument 1, for a registered _IFVAL_JUMP or _IFVAL_CALL whose
\* argument 1 exists and, quotes removed, is none of the six keywords; no
\* comparator diagnostic is reported in any other case.
ComparatorReportedExactly ==
    Analysed =>
        \A k \in 1..Len(parsed.commands) :
            LET cmd == parsed.commands[k]
                invalid ==
                    /\ Registered(cmd)
                    /\ cmd.name \in {c_IFVAL_JUMP, c_IFVAL_CALL}
                    /\ Len(cmd.args) >= 2
                    /\ Unquoted(cmd.args[2].value) \notin ComparatorKeywords
            IN  DiagsWithPhrase(cmd.line, "Invalid comparator: ") =
                    IF invalid
                    THEN <<Diagnostic(cmd.args[2].range,
                              <<"Invalid comparator: ">>
                                  \o Unquoted(cmd.args[2].value)
                                  \o <<". Expected one of: GE, GT, LE, LT, EQ, NE">>,
                              "Error")>>
                    ELSE <<>>

\* C6 witness: a registered _IFVAL_CALL with the quoted keyword "EQ" at index 1
\* has been validated without a comparator diagnostic.
QuotedComparatorValidated ==
    /\ Analysed
    /\ \E k \in 1..Len(parsed.commands) :
          LET cmd == parsed.commands[k]
          IN  /\ Registered(cmd)
              /\ cmd.name = c_IFVAL_CALL
              /\ Len(cmd.args) >= 2
              /\ cmd.args[2].value = Quoted(t_EQ)
              /\ DiagsWithPhrase(cmd.line, "Invalid comparator: ") = <<>>

\* the quote that opened the string in which column i of text lies, scanning
\* from column from; -1 outside any string
RECURSIVE StringOpener(_, _, _)
StringOpener(text, from, i) ==
    IF i <= from THEN -1
    ELSE LET o  == StringOpener(text, from, i - 1)
             ch == At(text, i - 1)
         IN  IF o = -1 THEN (IF ch \in {"\"", "'"} THEN i - 1 ELSE -1)
             ELSE IF ch = At(text, o) THEN -1
             ELSE o

\* column p lies between an opening quote and the next occurrence of that quote
InQuotePair(text, from, p) ==
    /\ StringOpener(text, from, p) # -1
    /\ \E r \in (p + 1)..(Len(text) - 1) :
           At(text, r) = At(text, StringOpener(text, from, p))

\* C7: in the argument list of an open call, a comma between an opening quote
\* and the next occurrence of the same quote starts no new argument: it lies
\* inside one argument, whose value is its text with the quote characters kept
\* and whose kind is string when it begins with the quote.
QuotedCommaNeverSplits ==
    Analysed =>
        \A k \in 1..Len(parsed.commands) :
            LET cmd  == parsed.commands[k]
                text == document[cmd.line + 1]
                open == cmd.column + Len(cmd.name)
            IN  (At(text, open) = "(" /\ ~Includes(text, ")")) =>
                \A p \in (open + 1)..(Len(text) - 1) :
                    (At(text, p) = "," /\ InQuotePair(text, open + 1, p)) =>
                        /\ \A j \in 1..Len(cmd.args) :
                               /\ cmd.args[j].range.end # p
                               /\ cmd.args[j].range.start # p + 1
                        /\ \E j \in 1..Len(cmd.args) :
                               LET arg == cmd.args[j]
                               IN  /\ arg.range.start < p
                                   /\ p < arg.range.end
                                   /\ arg.value =
                                          Trim(Substring(text, arg.range.start,
                                                         arg.range.end))
                                   /\ arg.value[1] \in {"\"", "'"} =>
                                          arg.type = "string"

\* C7 witness: the open call _TALKMSG("a, a" has been analysed and has exactly
\* one argument, a string with value "a, a".
QuotedCommaAnalysed ==
    /\ Analysed
    /\ LastLine(document) = OpenCall \o <<"\"", "a", ",", " ", "a", "\"">>
    /\ Len(parsed.commands) = 1
    /\ Len(parsed.commands[1].args) = 1
    /\ parsed.commands[1].args[1].type = "string"
    /\ parsed.commands[1].args[1].value = <<"\"", "a", ",", " ", "a", "\"">>

\* the columns of the open parentheses that open a command call: COMMAND(
CommandOpenings(text) ==
    {w \in 0..(Len(text) - 1) :
        /\ At(text, w) = "("
        /\ \E p \in 0..(w - 1) :
               /\ At(text, p) \in CmdStart
               /\ \A q \in p..(RunStart(text, w, Whitespace) - 1) :
                      At(text, q) \in CmdChar
               /\ RunStart(text, w, Whitespace) > p}

\* the name of the command call opened at column w
OpeningName(text, w) ==
    LET e == RunStart(text, w, Whitespace)
        p == CHOOSE q \in 0..(e - 1) :
                 /\ At(text, q) \in CmdStart
                 /\ \A r \in q..(e - 1) : At(text, r) \in CmdChar
                 /\ \A r \in 0..(q - 1) :
                        ~(At(text, r) \in CmdStart
                          /\ \A u \in r..(e - 1) : At(text, u) \in CmdChar)
    IN  Substring(text, p, e)

\* nesting depth of column p relative to the open parenthesis at column open
RECURSIVE DepthAt(_, _, _)
DepthAt(text, open, p) ==
    IF p <= open + 1 THEN 0
    ELSE DepthAt(text, open, p - 1)
         + (IF At(text, p - 1) = "(" THEN 1
            ELSE IF At(text, p - 1) = ")" THEN -1 ELSE 0)

\* the commas after the open parenthesis at column open that lie neither in a
\* quoted string nor in a nested pair of parentheses
TopLevelCommas(text, open) ==
    {p \in (open + 1)..(Len(text) - 1) :
        /\ At(text, p) = ","
        /\ StringOpener(text, open + 1, p) = -1
        /\ DepthAt(text, open, p) = 0}

Max(set) == CHOOSE m \in set : \A x \in set : x <= m

\* the line up to the cursor
TextUntilCursor == Substring(LastLine(document), 0, cursor)

\* C8: when getActiveContext reports a call, its argument index is the number of
\* top-level commas between that call's open parenthesis and the cursor; commas
\* inside a quoted string do not count.
ArgIndexCountsTopLevelCommas ==
    activeContext # <<>> =>
        activeContext[1].argIndex =
            Cardinality(TopLevelCommas(TextUntilCursor,
                                       Max(CommandOpenings(TextUntilCursor))))

\* the command openings not closed by their matching parenthesis before the cursor
UnclosedOpenings(text) ==
    {w \in CommandOpenings(text) : FindMatchingParen(text, w) = -1}

\* C9: getActiveContext reports the most recent COMMAND( opening left of the
\* cursor that its matching parenthesis has not closed, measures from that
\* command's own parenthesis, and returns none exactly when no call is open.
OpenCallReportedExactly ==
    IF UnclosedOpenings(TextUntilCursor) = {}
    THEN activeContext = <<>>
    ELSE /\ activeContext # <<>>
         /\ activeContext[1].cmdName =
                OpeningName(TextUntilCursor, Max(UnclosedOpenings(TextUntilCursor)))
         /\ OpenParenIndex(LastLine(document), cursor) =
                Max(UnclosedOpenings(TextUntilCursor))

FailedLoadLeavesTableEmpty ==
    (activated /\ errorLog # <<>>) =>
        /\ commandLookup = <<>>
        /\ Analysed =>
               \A k \in 1..Len(parsed.commands) :
                   DiagsWithPhrase(parsed.commands[k].line, "Unknown command: ") # <<>>

\* a nonempty run of digits
DigitsOnly(text) == text # <<>> /\ \A k \in 1..Len(text) : text[k] \in Digit

\* an optional '-', then digits, then optionally '.' and digits
MatchesNumber(value) ==
    LET body == IF value # <<>> /\ value[1] = "-" THEN Tail(value) ELSE value
    IN  \/ DigitsOnly(body)
        \/ \E k \in 1..Len(body) :
               /\ body[k] = "."
               /\ DigitsOnly(SubSeq(body, 1, k - 1))
               /\ DigitsOnly(SubSeq(body, k + 1, Len(body)))

\* the kind of a token by the first matching rule, from the token text alone
KindOf(value) ==
    IF value[1] = "@" THEN "work"
    ELSE IF value[1] = "#" THEN "flag"
    ELSE IF value[1] = "$" THEN "sysflag"
    ELSE IF value[1] \in {"\"", "'"} THEN "string"
    ELSE IF MatchesNumber(value) THEN "number"
    ELSE IF value \in {<<"G","E">>, <<"G","T">>, <<"L","E">>, <<"L","T">>,
                       <<"E","Q">>, <<"N","E">>} THEN "comparator"
    ELSE "unknown"

\* C12: every argument token is trimmed and nonempty, and its kind is the one
\* the first matching lexical rule gives for its text, whatever registry is
\* loaded.
TokenKindIsLexical ==
    Analysed =>
        \A k \in 1..Len(parsed.commands) :
            \A j \in 1..Len(parsed.commands[k].args) :
                LET arg == parsed.commands[k].args[j]
                IN  /\ arg.value # <<>>
                    /\ arg.value = Trim(arg.value)
                    /\ arg.type = KindOf(arg.value)

\* C12 witness: under the registry that lacks _JUMP, the token 5.5 has been
\* classified as a number.
DecimalTokenClassified ==
    /\ Analysed
    /\ c_JUMP \notin DOMAIN commandLookup
    /\ LastLine(document) = OpenCall \o <<"5", ".", "5">>
    /\ Len(parsed.commands) = 1
    /\ Len(parsed.commands[1].args) = 1
    /\ parsed.commands[1].args[1].value = <<"5", ".", "5">>
    /\ parsed.commands[1].args[1].type = "number"

\* C13: the label references are exactly those of the commands that have a
\* quoted string in the label slot of the jump/call table: one reference per
\* such command, on the command's line, named by the argument's text without
\* its quotes and ranging over that argument; nothing else gives a reference.
LabelReferencesFromTableSlot ==
    Analysed =>
        /\ \A k \in 1..Len(parsed.commands) :
               HasQuotedLabel(parsed.commands[k]) <=>
                   \E r \in 1..Len(parsed.labelReferences) :
                       parsed.labelReferences[r].line = parsed.commands[k].line
        /\ \A r \in 1..Len(parsed.labelReferences) :
               LET ref == parsed.labelReferences[r]
               IN  /\ \E k \in 1..Len(parsed.commands) :
                          LET cmd == parsed.commands[k]
                          IN  /\ cmd.line = ref.line
                              /\ HasQuotedLabel(cmd)
                              /\ ref.name = Unquoted(LabelArg(cmd).value)
                              /\ ref.range = LabelArg(cmd).range
                   /\ \A q \in 1..Len(parsed.labelReferences) :
                          parsed.labelReferences[q].line = ref.line => q = r

\* C13 witness: a script has been analysed in which _IFVAL_JUMP carries its label
\* in slot 3 and gave a reference, while _TALKMSG with a quoted string gave none.
SlotThreeReferenceParsed ==
    /\ Analysed
    /\ Len(parsed.labelReferences) = 1
    /\ \E k \in 1..Len(parsed.commands) :
           /\ parsed.commands[k].name = c_IFVAL_JUMP
           /\ parsed.labelReferences[1].line = parsed.commands[k].line
           /\ parsed.labelReferences[1].range = parsed.commands[k].args[4].range
           /\ parsed.labelReferences[1].name = l_ev
    /\ \E k \in 1..Len(parsed.commands) :
           /\ parsed.commands[k].name = c_TALKMSG
           /\ Len(parsed.commands[k].args) = 1
           /\ parsed.commands[k].args[1].type = "string"

\* the label names the line text declares: the identifier before a colon at the
\* start of the line
DeclaredNames(text) ==
    {SubSeq(text, 1, c - 1) : c \in {c \in 1..Len(text) :
        text[c] = ":" /\ IsIdentifier(SubSeq(text, 1, c - 1))}}

\* the zero-based numbers of the lines that declare name
DeclaringLines(name) ==
    {i \in 0..(Len(document) - 1) : name \in DeclaredNames(document[i + 1])}

\* C14: the label table has exactly one entry per distinct declared name, compared
\* case-sensitively, and the entry's line and range are those of the last line
\* declaring the name.
LabelTableLastDeclarationWins ==
    Analysed =>
        /\ DOMAIN parsed.labels =
               UNION {DeclaredNames(document[i]) : i \in 1..Len(document)}
        /\ \A name \in DOMAIN parsed.labels :
               /\ parsed.labels[name].name = name
               /\ parsed.labels[name].line = Max(DeclaringLines(name))
               /\ parsed.labels[name].range.line = Max(DeclaringLines(name))
               /\ parsed.labels[name].range.start = 0
               /\ parsed.labels[name].range.end = Len(name) + 1

\* C14 witness: ev is declared on the first and the last line and EV in between;
\* the table holds ev at the last line and EV apart from it.
RepeatedLabelParsed ==
    /\ Analysed
    /\ Len(document) = 3
    /\ DeclaringLines(l_ev) = {0, 2}
    /\ DeclaringLines(l_EV) = {1}
    /\ DOMAIN parsed.labels = {l_ev, l_EV}
    /\ parsed.labels[l_ev].line = 2
    /\ parsed.labels[l_EV].line = 1

Min(set) == CHOOSE m \in set : \A x \in set : m <= x

\* the column at which the name of the command call opened at column w starts
OpeningStart(text, w) ==
    Min({q \in 0..(RunStart(text, w, Whitespace) - 1) :
            /\ At(text, q) \in CmdStart
            /\ \A r \in q..(RunStart(text, w, Whitespace) - 1) :
                   At(text, r) \in CmdChar})

\* C15: the command recorded for a line is the first occurrence of an
\* uppercase-style identifier followed by an open parenthesis: its column and
\* range start are that occurrence's start, its range ends just after the
\* matching close parenthesis (or at the end of the line), and its arguments
\* are those of the text between that occurrence's parentheses.
CommandIsFirstOccurrence ==
    Analysed =>
        \A k \in 1..Len(parsed.commands) :
            LET cmd   == parsed.commands[k]
                text  == document[cmd.line + 1]
                open  == Min(CommandOpenings(text))
                close == FindMatchingParen(text, open)
            IN  /\ cmd.name = OpeningName(text, open)
                /\ cmd.column = OpeningStart(text, open)
                /\ cmd.range.start = OpeningStart(text, open)
                /\ cmd.range.end = IF close >= 0 THEN close + 1 ELSE Len(text)
                /\ cmd.args =
                       ParseArguments(IF close >= 0
                                      THEN Substring(text, open + 1, close)
                                      ELSE SubstringFrom(text, open + 1),
                                      cmd.line, open + 1)

\* the call opened at column open of text has one quoted string as its only
\* argument: a quote right after the parenthesis, the same quote next at the
\* last but one column, and the close parenthesis at the last column
IsCallOfOneString(text, open) ==
    /\ At(text, open) = "("
    /\ Len(text) >= open + 4
    /\ At(text, open + 1) \in {"\"", "'"}
    /\ At(text, Len(text) - 2) = At(text, open + 1)
    /\ At(text, Len(text) - 1) = ")"
    /\ \A c \in (open + 2)..(Len(text) - 3) : At(text, c) # At(text, open + 1)

\* C16: a call whose only argument is a quoted string is terminated at its real
\* close parenthesis and has exactly one string argument holding the full
\* quoted text, also when the string contains parentheses.
QuotedParensAreContent ==
    Analysed =>
        \A k \in 1..Len(parsed.commands) :
            LET cmd  == parsed.commands[k]
                text == document[cmd.line + 1]
                open == cmd.column + Len(cmd.name)
            IN  IsCallOfOneString(text, open) =>
                    /\ cmd.range.end = Len(text)
                    /\ Len(cmd.args) = 1
                    /\ cmd.args[1].type = "string"
                    /\ cmd.args[1].value = Substring(text, open + 1, Len(text) - 1)

\* the line text is blank or a comment
IsBlankOrComment(text) ==
    \/ Trim(text) = <<>>
    \/ Trim(text)[1] = ";"
    \/ Len(Trim(text)) >= 2 /\ Trim(text)[1] = "/" /\ Trim(text)[2] = "/"

\* the line text holds a command call whose open parenthesis is never matched
HasUnterminatedCall(text) ==
    /\ ~IsBlankOrComment(text)
    /\ CommandOpenings(text) # {}
    /\ FindMatchingParen(text, Min(CommandOpenings(text))) = -1

\* the commands recorded for line i
CommandsOnLine(i) == SelectSeq(parsed.commands, LAMBDA cmd : cmd.line = i)

\* C17: a line whose command call is never closed still gives exactly one
\* command; its arguments are those of the whole remainder of the line after
\* the open parenthesis and its range ends at the end of the line; every other
\* line gives the command it gives when analysed alone.
UnterminatedCallRecorded ==
    Analysed =>
        \A i \in 0..(Len(document) - 1) :
            LET text == document[i + 1]
            IN  /\ HasUnterminatedCall(text) =>
                       /\ Len(CommandsOnLine(i)) = 1
                       /\ CommandsOnLine(i)[1].name =
                              OpeningName(text, Min(CommandOpenings(text)))
                       /\ CommandsOnLine(i)[1].range.end = Len(text)
                       /\ CommandsOnLine(i)[1].args =
                              ParseArguments(
                                  SubstringFrom(text, Min(CommandOpenings(text)) + 1),
                                  i, Min(CommandOpenings(text)) + 1)
                /\ (/\ ~IsBlankOrComment(text)
                    /\ ~HasUnterminatedCall(text)
                    /\ CommandOpenings(text) # {}) =>
                       /\ Len(CommandsOnLine(i)) = 1
                       /\ CommandsOnLine(i)[1].range.end =
                              FindMatchingParen(text, Min(CommandOpenings(text))) + 1

\* C17 witness: _TALKMSG("no", 5 without its close parenthesis has been analysed
\* with a string and a number argument, and the terminated _JUMP("ev") on the
\* next line gave its command and its label reference.
OpenCallThenJumpAnalysed ==
    /\ Analysed
    /\ document = <<OpenCallOf(c_TALKMSG, <<Quoted(l_no), t_number>>),
                    Call(c_JUMP, <<Quoted(l_ev)>>)>>
    /\ Len(parsed.commands) = 2
    /\ Len(parsed.commands[1].args) = 2
    /\ parsed.commands[1].args[1].type = "string"
    /\ parsed.commands[1].args[2].type = "number"
    /\ parsed.commands[1].range.end = Len(document[1])
    /\ parsed.commands[2].line = 1
    /\ Len(parsed.labelReferences) = 1
    /\ parsed.labelReferences[1].line = 1

\* C18: in the argument list of an open call, every argument's range starts at
\* the argument's first non-whitespace character (only blanks lie between the
\* open parenthesis or the preceding comma and the start) and ends at the
\* comma that ends the argument or at the end of the argument text.
ArgumentRangeAnchored ==
    Analysed =>
        \A k \in 1..Len(parsed.commands) :
            LET cmd  == parsed.commands[k]
                text == document[cmd.line + 1]
                open == cmd.column + Len(cmd.name)
            IN  (At(text, open) = "(" /\ ~Includes(text, ")")) =>
                \A j \in 1..Len(cmd.args) :
                    LET arg == cmd.args[j]
                    IN  /\ arg.range.start < Len(text)
                        /\ At(text, arg.range.start) \notin Whitespace
                        /\ At(text, arg.range.start) = arg.value[1]
                        /\ \E sep \in open..(arg.range.start - 1) :
                               /\ At(text, sep) \in {"(", ","}
                               /\ \A c \in (sep + 1)..(arg.range.start - 1) :
                                      At(text, c) \in Whitespace
                        /\ \/ arg.range.end = Len(text)
                           \/ At(text, arg.range.end) = ","

\* C19: the arguments of a command are in source order, each with one range on
\* the command's line with start <= end that holds the argument's text; the
\* ranges of consecutive arguments strictly increase and do not overlap.
ArgumentRangesOrdered ==
    Analysed =>
        \A k \in 1..Len(parsed.commands) :
            LET cmd  == parsed.commands[k]
                text == document[cmd.line + 1]
            IN  \A j \in 1..Len(cmd.args) :
                    /\ cmd.args[j].range.line = cmd.line
                    /\ cmd.args[j].range.start <= cmd.args[j].range.end
                    /\ cmd.args[j].range.end <= Len(text)
                    /\ cmd.args[j].value =
                           Trim(Substring(text, cmd.args[j].range.start,
                                          cmd.args[j].range.end))
                    /\ j < Len(cmd.args) =>
                           /\ cmd.args[j].range.start < cmd.args[j + 1].range.start
                           /\ cmd.args[j].range.end < cmd.args[j + 1].range.end
                           /\ cmd.args[j].range.end <= cmd.args[j + 1].range.start

\* C19 witness: the open call _TALKMSG(a, "a",a has been analysed into three
\* arguments.
ThreeArgumentsAnalysed ==
    /\ Analysed
    /\ LastLine(document) = OpenCall \o <<"a", ",", "\"", "\"", ",", "a">>
    /\ Len(parsed.commands) = 1
    /\ Len(parsed.commands[1].args) = 3
    /\ parsed.commands[1].args[2].range.start = Len(OpenCall) + 2
    /\ parsed.commands[1].args[2].range.end = Len(OpenCall) + 4

\* the tokens of one shape on line, as <<start, end>> with end exclusive: a
\* character of first followed by the longest run of characters of rest, at
\* least min of them, starting where no earlier token of the shape runs
TokensOfShape(line, first, rest, min) ==
    {t \in (0..Len(line)) \X (0..Len(line)) :
        /\ t[1] < Len(line)
        /\ At(line, t[1]) \in first
        /\ t[2] = RunEnd(line, t[1] + 1, rest)
        /\ t[2] - (t[1] + 1) >= min
        /\ ~\E r \in 0..(t[1] - 1) :
               /\ At(line, r) \in first
               /\ RunEnd(line, r + 1, rest) > t[1]}

\* the tokens of the set that span column c, ends included
Spanning(tokens, c) == {t \in tokens : t[1] <= c /\ c <= t[2]}

\* the leftmost token of a nonempty set
FirstToken(tokens) == CHOOSE t \in tokens : \A u \in tokens : t[1] <= u[1]

\* the token symbolAt is to return at column c of line, as a set of at most one
SymbolToken(line, c) ==
    LET prefixed == Spanning(TokensOfShape(line, {"@", "#", "$"},
                                           IdentChar \cup {"-"}, 1), c)
        command  == Spanning(TokensOfShape(line, CmdStart, CmdChar, 0), c)
        generic  == Spanning(TokensOfShape(line, IdentStart, IdentChar, 0), c)
    IN  IF prefixed # {} THEN {FirstToken(prefixed)}
        ELSE IF command # {} THEN {FirstToken(command)}
        ELSE IF generic # {} THEN {FirstToken(generic)}
        ELSE {}

\* C20: getWordAtPosition returns the first token spanning the column, a
\* prefixed token before a command-style token before a generic identifier; the
\* returned range contains the column, the returned word is the line text of
\* the range, and the result is none exactly when no such token spans the column.
SymbolAtByPriority ==
    wordInfo # <<>> =>
        LET call  == wordInfo[1]
            token == SymbolToken(call.text, call.character)
        IN  IF token = {} THEN call.result = <<>>
            ELSE /\ call.result # <<>>
                 /\ \E t \in token :
                        /\ call.result[1].range.start = t[1]
                        /\ call.result[1].range.end = t[2]
                 /\ call.result[1].range.start <= call.character
                 /\ call.character <= call.result[1].range.end
                 /\ call.result[1].word =
                        Substring(call.text, call.result[1].range.start,
                                  call.result[1].range.end)

\* C20 witness: on the line @A the hover at column 1, which the prefixed token
\* @A and the command-style token A both span, returned @A.
PrefixedTokenPreferred ==
    /\ wordInfo # <<>>
    /\ wordInfo[1].text = <<"@", "A">>
    /\ wordInfo[1].character = 1
    /\ wordInfo[1].result # <<>>
    /\ wordInfo[1].result[1].word = <<"@", "A">>

\* the names of the label table whose entry lies on line i
LabelsOnLine(i) == {name \in DOMAIN parsed.labels : parsed.labels[name].line = i}

\* C21: a blank line and a line whose trimmed text starts with ; or // give no
\* label, no command, no label reference and no diagnostic; every line gives
\* at most one label and at most one command; the commands are in strictly
\* increasing line order.
CommentLinesContributeNothing ==
    Analysed =>
        /\ \A i \in 0..(Len(document) - 1) :
               /\ IsBlankOrComment(document[i + 1]) =>
                      /\ LabelsOnLine(i) = {}
                      /\ CommandsOnLine(i) = <<>>
                      /\ \A r \in 1..Len(parsed.labelReferences) :
                             parsed.labelReferences[r].line # i
                      /\ DiagsOnLine(i) = <<>>
               /\ Cardinality(LabelsOnLine(i)) <= 1
               /\ Len(CommandsOnLine(i)) <= 1
        /\ \A k \in 1..(Len(parsed.commands) - 1) :
               parsed.commands[k].line < parsed.commands[k + 1].line

\* C21 witness: an indented comment shaped like a _JUMP call stands between two
\* _JUMP calls naming an undeclared label; the model holds the two commands, on
\* lines 0 and 2, and their two diagnostics.
CommentBetweenCommandsAnalysed ==
    /\ Analysed
    /\ document = << Call(c_JUMP, <<Quoted(l_ev)>>),
                     <<" ", " ", ";">> \o Call(c_JUMP, <<Quoted(l_ev)>>),
                     Call(c_JUMP, <<Quoted(l_ev)>>) >>
    /\ Len(parsed.commands) = 2
    /\ parsed.commands[1].line = 0
    /\ parsed.commands[2].line = 2
    /\ Len(diagnostics) = 2

\* the columns of the commas after column open of text that lie outside quoted
\* strings: the separators of the argument segments
SegmentCommas(text, open) ==
    {p \in (open + 1)..(Len(text) - 1) :
        At(text, p) = "," /\ StringOpener(text, open + 1, p) = -1}

\* the j-th (from 1) smallest element of a set of columns
NthColumn(set, j) == CHOOSE p \in set : Cardinality({q \in set : q < p}) = j - 1

\* the text of the j-th (from 1) segment of the argument list opened at open
Segment(text, open, j) ==
    LET commas == SegmentCommas(text, open)
        from   == IF j = 1 THEN open + 1 ELSE NthColumn(commas, j - 1) + 1
        to     == IF j = Cardinality(commas) + 1 THEN Len(text)
                  ELSE NthColumn(commas, j)
    IN  Substring(text, from, to)

\* C22: the argument list of an open call gives no argument when it is blank,
\* and otherwise exactly one argument per comma-separated segment, the i-th
\* argument being the i-th segment, so that an argument's index is its written
\* position in the call.
OneArgumentPerSegment ==
    Analysed =>
        \A k \in 1..Len(parsed.commands) :
            LET cmd  == parsed.commands[k]
                text == document[cmd.line + 1]
                open == cmd.column + Len(cmd.name)
            IN  (At(text, open) = "(" /\ ~Includes(text, ")")) =>
                IF Trim(SubstringFrom(text, open + 1)) = <<>>
                THEN cmd.args = <<>>
                ELSE /\ Len(cmd.args) = Cardinality(SegmentCommas(text, open)) + 1
                     /\ \A j \in 1..Len(cmd.args) :
                            cmd.args[j].value = Trim(Segment(text, open, j))

\* the validator's output on the text alone, under the loaded registry
ValidatorOutput(text) == ComputeDiagnostics(ParseDocument(text), commandLookup)

\* C23: once the extension is active, the diagnostics stored for an open
\* bdsp-ev document are the validator's output on its latest text alone, a
\* closed document has none stored, and a document of another language has
\* none stored; before activation nothing is stored.
StoredDiagnosticsAreLatest ==
    /\ ~activated => collection = <<>>
    /\ activated =>
           \A uri \in Uris :
               IF documents[uri].isOpen /\ documents[uri].languageId = "bdsp-ev"
               THEN /\ uri \in DOMAIN collection
                    /\ collection[uri] = ValidatorOutput(documents[uri].text)
               ELSE uri \notin DOMAIN collection

\* C23 witness: an open bdsp-ev document has its diagnostics stored while a
\* plaintext document with the same text has none.
SameTextOtherLanguageStored ==
    /\ activated
    /\ documents[1].isOpen
    /\ documents[1].languageId = "bdsp-ev"
    /\ documents[2].isOpen
    /\ documents[2].languageId = "plaintext"
    /\ documents[2].text = documents[1].text
    /\ 1 \in DOMAIN collection
    /\ collection[1] # <<>>
    /\ 2 \notin DOMAIN collection

\* the label references the parser recorded on line i whose name is not in the
\* label table
DanglingReferencesOnLine(i) ==
    SelectSeq(parsed.labelReferences,
              LAMBDA ref : ref.line = i /\ ref.name \notin DOMAIN parsed.labels)

\* C24: for every registered command the validator reports "Undefined label"
\* exactly when the parser recorded a label reference for the command whose name
\* is not in the label table, and then the diagnostic names that reference and
\* has its range.
ValidatorFollowsParserReferences ==
    Analysed =>
        \A k \in 1..Len(parsed.commands) :
            LET cmd == parsed.commands[k]
            IN  Registered(cmd) =>
                    IF DanglingReferencesOnLine(cmd.line) = <<>>
                    THEN DiagsWithPhrase(cmd.line, "Undefined label: ") = <<>>
                    ELSE /\ Len(DanglingReferencesOnLine(cmd.line)) = 1
                         /\ Len(DiagsWithPhrase(cmd.line, "Undefined label: ")) = 1
                         /\ DiagsWithPhrase(cmd.line, "Undefined label: ")[1].message =
                                <<"Undefined label: ">>
                                \o DanglingReferencesOnLine(cmd.line)[1].name
                         /\ DiagsWithPhrase(cmd.line, "Undefined label: ")[1].range =
                                DanglingReferencesOnLine(cmd.line)[1].range

\* C24 witness: a registered _OBJ_ANIME, whose label is its second argument, has
\* been validated with a reference to a label that is not in the label table.
DanglingObjAnimeValidated ==
    /\ Analysed
    /\ \E k \in 1..Len(parsed.commands) :
           /\ parsed.commands[k].name = c_OBJ_ANIME
           /\ Registered(parsed.commands[k])
           /\ Len(DanglingReferencesOnLine(parsed.commands[k].line)) = 1
           /\ Len(DiagsWithPhrase(parsed.commands[k].line, "Undefined label: ")) = 1

\* the label-style identifiers of line that have a character at column c, as
\* <<start, end>> with end exclusive: a letter or underscore followed by the
\* longest run of letters, digits and underscores, a lowercase letter among them
LabelStyleIdentifiersAt(line, c) ==
    {t \in TokensOfShape(line, IdentStart, IdentChar, 0) :
        /\ t[1] <= c
        /\ c < t[2]
        /\ \E k \in t[1]..(t[2] - 1) : At(line, k) \in Lower}

\* C25: at every column on a character of a label-style identifier that is not
\* part of a prefixed token, getWordAtPosition returns the whole identifier and
\* its range.
LabelIdentifierReturnedWhole ==
    wordInfo # <<>> =>
        LET call == wordInfo[1]
        IN  Spanning(TokensOfShape(call.text, {"@", "#", "$"},
                                   IdentChar \cup {"-"}, 1), call.character) = {}
            => \A t \in LabelStyleIdentifiersAt(call.text, call.character) :
                   /\ call.result # <<>>
                   /\ call.result[1].word = Substring(call.text, t[1], t[2])
                   /\ call.result[1].range.start = t[1]
                   /\ call.result[1].range.end = t[2]

====
